---- MODULE Spec2Model ----
(***************************************************************************)
(* Model of the photorific server (src/server/index.js): the Job class,    *)
(* the jobs registry, the WebSocket broadcaster and the request handlers   *)
(* POST /api/upload-folder, /api/upload-photos-batch, /api/upload-photo,   *)
(* /api/check-sync-status and /api/check-sync-status-simple.  Every action *)
(* is one run of a handler between two suspension points (awaits) of the   *)
(* single-threaded event loop.  Spec runs the upload and the tracked       *)
(* reconciliation handlers from the default folder and an empty bucket,    *)
(* SpecSync the two reconciliation handlers over every folder and bucket   *)
(* content of the bounds, SpecJob the Job class alone.                     *)
(***************************************************************************)
EXTENDS Integers, Sequences, FiniteSets, TLC

(* ------------------------------ bounds -------------------------------- *)
\* number of requests (handler invocations) the model follows
MaxRequests == 2
\* number of local files
MaxFiles == 2
\* longest photoPaths / localFiles list of one request
MaxBatch == 2
\* number of entries (files, folders) below the scanned root
MaxEntries == 3
\* number of list elements over all the requests the model follows
MaxItems == 2
\* number of WebSocket connections ever opened
MaxClients == 1
\* httpUploadProgress events delivered during one streaming transfer
MaxCallbacks == 1
\* keys returned by one listObjectsV2 page
PageSize == 1
\* largest totalItems of a Job that is exercised on its own
MaxTotalItems == 3

(* ------------------------- program constants -------------------------- *)
\* 100 * 1024 * 1024, the isLargeFile threshold
LargeFileThreshold == 104857600
\* delay of the cleanup timer in milliseconds
CleanupDelay == 30000
\* the sync check pauses after every file whose index is a multiple of this
PauseEvery == 10

Requests == 1..MaxRequests
Files == 1..MaxFiles
Clients == 1..MaxClients

\* null / undefined, for string-valued fields
NULL == "null"
\* an absent req.body.jobId
NoId == 0
\* the slot of a Job object that has not been constructed
NoJob == [id |-> NoId]
\* an undefined continuationToken
NoToken == <<>>
\* an s3Key that has not been computed
NoKey == <<>>
\* error.message of a failed stat, readFile or upload, and of a failed remove
TransferError == "transfer failed"
RemoveError == "remove failed"
\* the results of dividing by a totalItems of 0
NaN == 0 - 1
Infinity == 0 - 2
\* a photoPaths / localFiles element that is not a usable value (null, a number)
BadPath == 0

(* ------------------------- strings and paths -------------------------- *)
\* A string is the sequence of its characters.
\* config.folderPath as the settings of a client can hold it: the default of
\* the README, and a folder whose name carries a bracketed number
DefaultFolderPath == <<"~", "/", "p">>
FolderPaths == {DefaultFolderPath, <<"/", "p", "(", "1", ")">>}
\* require('os').homedir()
HomeDir == <<"/", "h">>

\* String.prototype.startsWith
StartsWith(str, prefix) ==
    Len(prefix) <= Len(str) /\ SubSeq(str, 1, Len(prefix)) = prefix

\* expandTilde: path.join(homedir, filePath.slice(2)) for a path in "~/"
expandTilde(filePath) ==
    IF StartsWith(filePath, <<"~", "/">>)
    THEN LET rest == SubSeq(filePath, 3, Len(filePath))
         IN IF rest = <<>> THEN HomeDir ELSE HomeDir \o <<"/">> \o rest
    ELSE filePath

\* path.basename(p): what follows the last "/", a trailing "/" set aside
PathBasename(p) ==
    LET q == IF Len(p) > 1 /\ p[Len(p)] = "/" THEN SubSeq(p, 1, Len(p) - 1) ELSE p
        slashes == {k \in 1..Len(q) : q[k] = "/"}
        last == IF slashes = {} THEN 0
                ELSE CHOOSE k \in slashes : \A m \in slashes : m <= k
    IN SubSeq(q, last + 1, Len(q))

\* path.relative(from, to) for a path `to` that lies below the folder `from`
PathRelative(from, to) == SubSeq(to, Len(from) + 2, Len(to))

RECURSIVE ReplaceBackslashes(_)
\* str.replace(/\\/g, '/')
ReplaceBackslashes(str) ==
    IF str = <<>> THEN <<>>
    ELSE <<IF Head(str) = "\\" THEN "/" ELSE Head(str)>> \o ReplaceBackslashes(Tail(str))

\* the result of a RegExp that does not match
NoMatch == 0 - 1

RECURSIVE RegExpMatch(_, _)
\* the length of the match of the pattern `^${pattern}` at the start of str, or
\* NoMatch: "(" and ")" delimit a group and consume nothing, every other
\* character of the folder names above stands for itself
RegExpMatch(pattern, str) ==
    IF pattern = <<>> THEN 0
    ELSE IF Head(pattern) \in {"(", ")"} THEN RegExpMatch(Tail(pattern), str)
    ELSE IF str # <<>> /\ Head(str) = Head(pattern)
         THEN LET n == RegExpMatch(Tail(pattern), Tail(str))
              IN IF n = NoMatch THEN NoMatch ELSE n + 1
         ELSE NoMatch

\* the UTF-8 code of a character, which orders the keys of a listing
CharCode(c) ==
    CASE c = "(" -> 40 [] c = ")" -> 41 [] c = "/" -> 47
      [] c = "1" -> 49 [] c = "2" -> 50 [] c = "3" -> 51
      [] c = "Z" -> 90 [] c = "\\" -> 92 [] c = "_" -> 95
      [] c = "a" -> 97 [] c = "h" -> 104 [] c = "p" -> 112
      [] c = "s" -> 115 [] c = "~" -> 126

RECURSIVE KeyBefore(_, _)
\* a sorts strictly before b in the bucket's listing (binary order)
KeyBefore(a, b) ==
    IF b = <<>> THEN FALSE
    ELSE IF a = <<>> THEN TRUE
    ELSE IF Head(a) = Head(b) THEN KeyBefore(Tail(a), Tail(b))
    ELSE CharCode(Head(a)) < CharCode(Head(b))

(* ------------------------- the local file tree ------------------------ *)
\* stats.size: odd files sit exactly on the threshold, even files one above
SizeOf(f) == IF f % 2 = 0 THEN LargeFileThreshold + 1 ELSE LargeFileThreshold
\* where file f lies below the root: a file "s", a file whose name "a\s"
\* holds a backslash, and a file "s" in the folder "a"
LocalName(f) ==
    CASE f % 3 = 1 -> <<"s">>
      [] f % 3 = 2 -> <<"a", "\\", "s">>
      [] OTHER -> <<"a", "/", "s">>

\* isLargeFile as it would be if the comparison were not strict
isLargeFileInclusive(fileSize) == fileSize >= LargeFileThreshold

isLargeFile(fileSize) == fileSize > LargeFileThreshold

\* the branch of `if (isLargeFile)`: fs.createReadStream, or fs.readFile
TransferStrategy(fileSize) == IF isLargeFile(fileSize) THEN "streaming" ELSE "buffered"

(* ------------------------------ state --------------------------------- *)
VARIABLES
    hs,        \* hs[h]: the local variables and position of handler h
    job,       \* job[h]: the Job object created by handler h (id h), or NoJob
    jobsMap,   \* the jobs Map, as the sequence of its keys in insertion order
    timers,    \* job ids with a pending setTimeout(() => jobs.delete(id))
    cstate,    \* cstate[c]: "open" | "closed", the readyState of the socket in slot c
    sent,      \* sent[c]: the messages the last step handed to client c's socket, in order
    resp,      \* resp[h]: the responses written or attempted on request h
    localFs,   \* the local files that exist
    remote,    \* the keys of the objects in the bucket
    mutLog,    \* the Job objects as left by each updateProgress/complete/fail call of the last step
    deletedBy, \* pairs <<h, f>>: handler h removed local file f
    published, \* the messages the last step passed to wss.clients.forEach, in order
    folderPath, \* config.folderPath of the settings the requests of a run carry
    dirTree,   \* the entries below the root folder, parents before children
    scan,      \* the locals and position of the /api/scan-photos handler
    client     \* the PhotoUpload component of the browser and the sockets it has made

vars == <<hs, job, jobsMap, timers, cstate, sent, resp, localFs, remote, mutLog, deletedBy,
          published, folderPath, dirTree, scan, client>>

\* photo.path of the scan: path.join(dirPath, item)
FilePath(f) == expandTilde(folderPath) \o <<"/">> \o LocalName(f)
\* path.basename(photoPath)
Basename(f) == PathBasename(FilePath(f))
\* path.relative(expandTilde(config.folderPath), photoPath)
RelativePath(f) == PathRelative(expandTilde(folderPath), FilePath(f))
\* path.basename(expandTilde(config.folderPath))
baseFolderName == PathBasename(expandTilde(folderPath))

\* the body of a response that has not been written
NoBody == [syncStatus |-> <<>>, s3ObjectCount |-> 0]

IdleHandler ==
    [kind |-> "none", pc |-> "idle", paths |-> <<>>, del |-> FALSE, pres |-> TRUE,
     i |-> 0, results |-> <<>>, key |-> NoKey, strategy |-> "none", cb |-> 0,
     putOk |-> {}, ioFailed |-> {}, notified |-> <<>>, nResults |-> 0,
     s3Objects |-> {}, token |-> NoToken, syncStatus |-> <<>>, body |-> NoBody,
     atReply |-> NoJob, listeners |-> {}, late |-> 0, pages |-> 0]

\* the /api/scan-photos handler before its request: stack holds one frame per
\* scanDirectory call that has not returned, resp the responses written
IdleScan == [pc |-> "idle", hasPath |-> TRUE, stack |-> <<>>, totalPhotos |-> 0,
             statFailed |-> <<>>, resp |-> <<>>]

\* the WebSocket objects the component makes in one run, and the jobs it starts
MaxSockets == 4
MaxClientJobs == 2
ClientJobs == 1..MaxClientJobs
\* wsRef.current before the first connectWebSocket: useRef<WebSocket | null>(null)
NoSocket == 0

\* the PhotoUpload component after its first render, configured, its effects
\* not yet run; startedJobs is the server's side of the jobs it starts
InitClient ==
    [sockets |-> <<>>, wsRef |-> NoSocket, activeJobIds |-> {}, timeouts |-> 0,
     effectPending |-> TRUE,
     startedJobs |-> [j \in ClientJobs |-> "none"],
     jobType |-> [j \in ClientJobs |-> "none"],
     processed |-> [j \in ClientJobs |-> 0]]

\* a root folder that exists and holds nothing the scan would list
EmptyTree == [exists |-> TRUE, entries |-> <<>>]

\* the server after its start, for a client configured with the folder fp and
\* a bucket that holds the keys of the set bucket
InitWith(fp, bucket) ==
    /\ hs = [h \in Requests |-> IdleHandler]
    /\ job = [h \in Requests |-> NoJob]
    /\ jobsMap = <<>>
    /\ timers = {}
    /\ cstate = [c \in Clients |-> "closed"]
    /\ sent = [c \in Clients |-> <<>>]
    /\ resp = [h \in Requests |-> <<>>]
    /\ localFs = Files
    /\ remote = bucket
    /\ mutLog = <<>>
    /\ deletedBy = {}
    /\ published = <<>>
    /\ folderPath = fp
    /\ dirTree = EmptyTree
    /\ scan = IdleScan
    /\ client = InitClient

Init == InitWith(DefaultFolderPath, {})

\* the server-side state a handler step reads and writes, threaded through
\* the operators below in program order
Cur == [hs |-> hs, job |-> job, jobsMap |-> jobsMap, timers |-> timers,
        sent |-> [c \in Clients |-> <<>>], resp |-> resp, mutLog |-> <<>>,
        pub |-> <<>>]

Commit(S) ==
    /\ hs' = S.hs
    /\ job' = S.job
    /\ jobsMap' = S.jobsMap
    /\ timers' = S.timers
    /\ sent' = S.sent
    /\ resp' = S.resp
    /\ mutLog' = S.mutLog
    /\ published' = S.pub

Range(s) == {s[k] : k \in 1..Len(s)}

RECURSIVE RemoveFirst(_, _)
RemoveFirst(s, x) ==
    IF s = <<>> THEN <<>>
    ELSE IF Head(s) = x THEN Tail(s)
    ELSE <<Head(s)>> \o RemoveFirst(Tail(s), x)

(* --------------------------- broadcaster ------------------------------ *)
\* the forEach loop as it would be if a socket sent its newest message first
BroadcastNewestFirst(out, msg) ==
    [c \in Clients |-> IF cstate[c] = "open" THEN <<msg>> \o out[c] ELSE out[c]]

\* wss.clients.forEach(client => if (client.readyState === OPEN) client.send(msg))
Broadcast(out, msg) ==
    [c \in Clients |-> IF cstate[c] = "open" THEN Append(out[c], msg) ELSE out[c]]

\* one run of the forEach loop over the serialized message msg
Publish(S, msg) == [S EXCEPT !.sent = Broadcast(@, msg), !.pub = Append(@, msg)]

(* ----------------------------- class Job ------------------------------ *)
NewJob(id, type, totalItems) ==
    [id |-> id, type |-> type, status |-> "running", progress |-> 0,
     totalItems |-> totalItems, completedItems |-> 0, failedItems |-> 0,
     currentItem |-> <<>>, errors |-> <<>>]

\* Math.round((completedItems / totalItems) * 100)
RoundPercent(completedItems, totalItems) ==
    IF totalItems = 0
    THEN IF completedItems = 0 THEN NaN ELSE Infinity
    ELSE (200 * completedItems + totalItems) \div (2 * totalItems)

broadcastUpdate(S, j) ==
    Publish(S, [type |-> "job_update", job |-> S.job[j]])

\* updateProgress as it would be if every call counted as a failure
updateProgressCountsAlways(S, j, completedItems, currentItem, error) ==
    LET old == S.job[j]
        new == [old EXCEPT
                  !.completedItems = completedItems,
                  !.currentItem = currentItem,
                  !.progress = RoundPercent(completedItems, old.totalItems),
                  !.failedItems = @ + 1,
                  !.errors = IF error # NULL THEN Append(@, error) ELSE @]
    IN broadcastUpdate([S EXCEPT !.job[j] = new, !.mutLog = Append(@, new)], j)

updateProgress(S, j, completedItems, currentItem, error) ==
    LET old == S.job[j]
        new == [old EXCEPT
                  !.completedItems = completedItems,
                  !.currentItem = currentItem,
                  !.progress = RoundPercent(completedItems, old.totalItems),
                  !.failedItems = IF error # NULL THEN @ + 1 ELSE @,
                  !.errors = IF error # NULL THEN Append(@, error) ELSE @]
    IN broadcastUpdate([S EXCEPT !.job[j] = new, !.mutLog = Append(@, new)], j)

\* complete() as it would be without its broadcastUpdate() call
completeSilent(S, j) ==
    LET new == [S.job[j] EXCEPT !.status = "completed", !.progress = 100,
                                !.currentItem = <<>>]
    IN [S EXCEPT !.job[j] = new, !.mutLog = Append(@, new)]

\* complete() as it would be if it left the progress where it stood
completeKeepsProgress(S, j) ==
    LET new == [S.job[j] EXCEPT !.status = "completed", !.currentItem = <<>>]
    IN broadcastUpdate([S EXCEPT !.job[j] = new, !.mutLog = Append(@, new)], j)

complete(S, j) ==
    LET new == [S.job[j] EXCEPT !.status = "completed", !.progress = 100,
                                !.currentItem = <<>>]
    IN broadcastUpdate([S EXCEPT !.job[j] = new, !.mutLog = Append(@, new)], j)

\* fail() as it would be if it kept only the last error
failReplacesErrors(S, j, error) ==
    LET new == [S.job[j] EXCEPT !.status = "failed", !.errors = <<error>>]
    IN broadcastUpdate([S EXCEPT !.job[j] = new, !.mutLog = Append(@, new)], j)

fail(S, j, error) ==
    LET new == [S.job[j] EXCEPT !.status = "failed", !.errors = Append(@, error)]
    IN broadcastUpdate([S EXCEPT !.job[j] = new, !.mutLog = Append(@, new)], j)

\* the opening of a tracked handler as it would be if the id were returned
\* before jobs.set
createJobRepliesFirst(S, h, type, totalItems) ==
    LET S1 == [S EXCEPT !.resp[h] = Append(@, 200),
                        !.hs[h].atReply = IF h \in Range(S.jobsMap) THEN S.job[h] ELSE NoJob]
    IN [S1 EXCEPT !.job[h] = NewJob(h, type, totalItems), !.jobsMap = Append(@, h)]

\* const job = new Job(jobId, type, totalItems); jobs.set(jobId, job);
\* res.json({ jobId, message }).  atReply is jobs.get(jobId) as the caller
\* would find it at the moment the id leaves
createJob(S, h, type, totalItems) ==
    LET S1 == [S EXCEPT !.job[h] = NewJob(h, type, totalItems), !.jobsMap = Append(@, h)]
    IN [S1 EXCEPT !.resp[h] = Append(@, 200),
                  !.hs[h].atReply = IF h \in Range(S1.jobsMap) THEN S1.job[h] ELSE NoJob]

(* ----------------------- request input domains ------------------------ *)
RECURSIVE SeqsUpTo(_, _)
SeqsUpTo(S, n) ==
    IF n = 0 THEN {<<>>}
    ELSE LET shorter == SeqsUpTo(S, n - 1)
         IN shorter \cup {Append(s, x) : s \in {t \in shorter : Len(t) = n - 1}, x \in S}

\* req.body.photoPaths / req.body.localFiles: lists of files, possibly ending in
\* an unusable element (what follows one is never read)
PathLists ==
    LET good == SeqsUpTo(Files, MaxBatch)
    IN good \cup {Append(s, BadPath) : s \in {t \in good : Len(t) < MaxBatch}}

\* some element of the list is a file, so that the two flags are read
HasFile(paths) == \E k \in 1..Len(paths) : paths[k] # BadPath
\* req.body.jobId of request h: absent, or the id of a job created before the
\* request was sent (its own id is drawn by uuidv4() after the body was read)
BodyJobIds(h) == {NoId} \cup {g \in Requests : g < h}
\* values of Date.now() seen by two key computations: equal or different
Timestamps == {1, 2}

\* handlers are started in the order of their slots
CanStart(h) == hs[h].pc = "idle" /\ \A g \in Requests : g < h => hs[g].pc # "idle"

RECURSIVE ItemsUpTo(_)
ItemsUpTo(h) == IF h = 0 THEN 0 ELSE Len(hs[h].paths) + ItemsUpTo(h - 1)
\* the request lists that keep the model within MaxItems
Admissible(paths) == ItemsUpTo(MaxRequests) + Len(paths) <= MaxItems

(* ------------------------ POST /api/upload-folder --------------------- *)
\* the s3Key of lines 737-739
DestinationKey(preserveStructure, f, now) ==
    IF preserveStructure
    THEN baseFolderName \o <<"/">> \o ReplaceBackslashes(RelativePath(f))
    ELSE baseFolderName \o <<"/">> \o <<ToString(now), "_">> \o Basename(f)

\* the s3Key of lines 417-418 and 495-496: the timestamp is an ISO date whose
\* ":" and "." have become "-"; photoFile.originalname is the name of the file
TimestampedKey(f, now) ==
    baseFolderName \o <<"/">> \o <<ToString(now), "Z", "_">> \o Basename(f)

\* the outer catch: fail the job named by req.body.jobId, then answer 500
outerCatch(S, h, bodyJobId, message) ==
    LET S1 == IF bodyJobId # NoId /\ bodyJobId \in Range(S.jobsMap)
              THEN fail(S, bodyJobId, message)
              ELSE S
    IN [S1 EXCEPT !.resp[h] = Append(@, 500), !.hs[h].pc = "aborted"]

\* after the loop: upload_result broadcast, job.complete(), cleanup timer
finishUpload(S, h) ==
    LET S1 == [Publish(S, [type |-> "upload_result", jobId |-> h,
                           results |-> S.hs[h].results])
                 EXCEPT !.hs[h].nResults = @ + 1]
        S2 == complete(S1, h)
    IN [S2 EXCEPT !.timers = @ \cup {h}, !.hs[h].pc = "done"]

\* the outer catch of upload-photos-batch: answer 500
batchCatch(S, h) ==
    [S EXCEPT !.resp[h] = Append(@, 500), !.hs[h].pc = "aborted"]

\* after the loop of upload-photos-batch: res.json({ results })
finishBatch(S, h) ==
    [S EXCEPT !.resp[h] = Append(@, 200), !.hs[h].pc = "done"]

\* the head of the per-file loop for the file at position i, up to the await
\* of fs.stat
enterIteration(S, h, i, bodyJobId) ==
    LET paths == S.hs[h].paths
        S0 == [S EXCEPT !.hs[h].i = i, !.hs[h].cb = 0, !.hs[h].key = NoKey,
                        !.hs[h].strategy = "none"]
    IN IF S.hs[h].kind = "batch"
       THEN IF i > Len(paths) THEN finishBatch(S0, h)
            ELSE [S0 EXCEPT !.hs[h].pc = "stat"]
       ELSE IF i > Len(paths) THEN finishUpload(S0, h)
            ELSE IF paths[i] = BadPath
                 THEN outerCatch(S0, h, bodyJobId, "path must be a string")
                 ELSE [updateProgress(S0, h, i - 1, <<Basename(paths[i])>>, NULL)
                          EXCEPT !.hs[h].pc = "stat"]

\* the per-file catch block as it would be if it rethrew instead of continuing
perFileCatchRethrows(S, h, message, bodyJobId) ==
    LET i == S.hs[h].i
        f == S.hs[h].paths[i]
        S1 == [S EXCEPT !.hs[h].results =
                 Append(@, [success |-> FALSE, path |-> f, error |-> message])]
    IN IF S.hs[h].kind = "batch" THEN batchCatch(S1, h)
       ELSE outerCatch(updateProgress(S1, h, i, <<Basename(f)>>, message), h,
                       bodyJobId, message)

\* the per-file catch block as it would be if the loop then passed over the
\* file that follows
perFileCatchSkipsNext(S, h, message, bodyJobId) ==
    LET i == S.hs[h].i
        f == S.hs[h].paths[i]
        S1 == [S EXCEPT !.hs[h].results =
                 Append(@, [success |-> FALSE, path |-> f, error |-> message])]
        S2 == IF S.hs[h].kind = "batch" THEN S1
              ELSE updateProgress(S1, h, i, <<Basename(f)>>, message)
    IN enterIteration(S2, h, i + 2, bodyJobId)

\* the per-file catch block followed by `continue`
perFileCatch(S, h, message, bodyJobId) ==
    LET i == S.hs[h].i
        f == S.hs[h].paths[i]
        S1 == [S EXCEPT !.hs[h].results =
                 Append(@, [success |-> FALSE, path |-> f, error |-> message])]
        S2 == IF S.hs[h].kind = "batch" THEN S1
              ELSE updateProgress(S1, h, i, <<Basename(f)>>, message)
    IN enterIteration(S2, h, i + 1, bodyJobId)

\* the end of the try block: outcome, file_upload_success, progress
fileSucceeded(S, h, bodyJobId) ==
    LET i == S.hs[h].i
        f == S.hs[h].paths[i]
        key == S.hs[h].key
    IN IF S.hs[h].kind = "batch"
       THEN enterIteration(
              [S EXCEPT !.hs[h].results =
                 Append(@, [success |-> TRUE, path |-> f, s3Key |-> key])],
              h, i + 1, bodyJobId)
       ELSE LET S1 == [S EXCEPT !.hs[h].results =
                         Append(@, [success |-> TRUE, path |-> f, s3Key |-> key,
                                    relativePath |-> RelativePath(f)])]
                S2 == [Publish(S1, [type |-> "file_upload_success", jobId |-> h,
                                    relativePath |-> RelativePath(f), s3Key |-> key])
                         EXCEPT !.hs[h].notified = Append(@, i)]
                S3 == updateProgress(S2, h, i, <<Basename(f)>>, NULL)
            IN enterIteration(S3, h, i + 1, bodyJobId)

\* an awaited call of the try block rejects for the file at position i
Threw(S, h) == [S EXCEPT !.hs[h].ioFailed = @ \cup {S.hs[h].i}]

\* the handler from its entry to its first await
StartUpload(h) ==
    /\ CanStart(h)
    /\ \E paths \in PathLists, del \in BOOLEAN, pres \in BOOLEAN,
          configOk \in BOOLEAN, bodyJobId \in BodyJobIds(h) :
         /\ Admissible(paths)
         /\ ~HasFile(paths) => (~del /\ pres)
         /\ LET S0 == createJob(
                         [Cur EXCEPT
                            !.hs[h] = [IdleHandler EXCEPT !.kind = "upload", !.paths = paths,
                                                          !.del = del, !.pres = pres]],
                         h, "upload", Len(paths))
            IN Commit(IF configOk THEN enterIteration(S0, h, 1, bodyJobId)
                      ELSE outerCatch(S0, h, bodyJobId, "config is undefined"))
    /\ UNCHANGED <<cstate, localFs, remote, deletedBy, folderPath, dirTree, scan, client>>

\* a body without photoPaths: photoPaths.length throws before the job exists
RejectUpload(h) ==
    /\ CanStart(h)
    /\ \E bodyJobId \in BodyJobIds(h) :
         Commit(outerCatch([Cur EXCEPT !.hs[h].kind = "upload"], h, bodyJobId,
                           "photoPaths is undefined"))
    /\ UNCHANGED <<cstate, localFs, remote, deletedBy, folderPath, dirTree, scan, client>>

\* await fs.stat(photoPath) returns
StatDone(h) ==
    /\ hs[h].pc = "stat"
    /\ LET f == hs[h].paths[hs[h].i] IN
       \E ok \in BOOLEAN, now \in Timestamps, bodyJobId \in BodyJobIds(h) :
         /\ ok => f \in localFs
         /\ (hs[h].pres \/ ~ok) => now = 1
         /\ (ok \/ hs[h].kind = "batch") => bodyJobId = NoId
         /\ Commit(
              IF ~ok THEN perFileCatch(Threw(Cur, h), h, TransferError, bodyJobId)
              ELSE [Cur EXCEPT
                      !.hs[h].key = IF hs[h].kind = "batch" THEN TimestampedKey(f, now)
                                    ELSE DestinationKey(hs[h].pres, f, now),
                      !.hs[h].strategy = TransferStrategy(SizeOf(f)),
                      !.hs[h].listeners = IF hs[h].kind = "upload" /\ isLargeFile(SizeOf(f))
                                          THEN @ \cup {hs[h].i} ELSE @,
                      !.hs[h].pc = IF isLargeFile(SizeOf(f)) THEN "put" ELSE "read"])
    /\ UNCHANGED <<cstate, localFs, remote, deletedBy, folderPath, dirTree, scan, client>>

\* await fs.readFile(photoPath) returns (buffered transfer)
ReadDone(h) ==
    /\ hs[h].pc = "read"
    /\ LET f == hs[h].paths[hs[h].i] IN
       \E ok \in BOOLEAN, bodyJobId \in BodyJobIds(h) :
         /\ ok => f \in localFs
         /\ (ok \/ hs[h].kind = "batch") => bodyJobId = NoId
         /\ Commit(IF ok THEN [Cur EXCEPT !.hs[h].pc = "put"]
                   ELSE perFileCatch(Threw(Cur, h), h, TransferError, bodyJobId))
    /\ UNCHANGED <<cstate, localFs, remote, deletedBy, folderPath, dirTree, scan, client>>

\* managedUpload.on('httpUploadProgress') during a streaming transfer
UploadProgress(h) ==
    /\ hs[h].pc = "put"
    /\ hs[h].kind = "upload"
    /\ hs[h].cb < MaxCallbacks
    /\ LET f == hs[h].paths[hs[h].i] IN
         /\ isLargeFile(SizeOf(f))
         /\ \E progressPercent \in {50} :
              Commit([updateProgress(Cur, h, hs[h].i - 1,
                                     <<Basename(f), progressPercent>>, NULL)
                        EXCEPT !.hs[h].cb = @ + 1])
    /\ UNCHANGED <<cstate, localFs, remote, deletedBy, folderPath, dirTree, scan, client>>

\* the listener of a managedUpload whose promise has rejected runs once more:
\* the listener is never removed, and a part of a multipart transfer that was
\* in flight when another part failed can still report its bytes.  The
\* closure holds the i and the filename of its own iteration
LateUploadProgress(h) ==
    /\ hs[h].kind = "upload"
    /\ hs[h].late < MaxCallbacks
    /\ \E k \in (hs[h].listeners \cap hs[h].ioFailed) \ hs[h].putOk, progressPercent \in {50} :
         Commit([updateProgress(Cur, h, k - 1,
                                <<Basename(hs[h].paths[k]), progressPercent>>, NULL)
                   EXCEPT !.hs[h].late = @ + 1])
    /\ UNCHANGED <<cstate, localFs, remote, deletedBy, folderPath, dirTree, scan, client>>

\* PutDone as it would be if the removal did not depend on the put's success
PutDoneRemovesAnyway(h) ==
    /\ hs[h].pc = "put"
    /\ \E ok \in BOOLEAN, bodyJobId \in BodyJobIds(h) :
         /\ (hs[h].kind = "batch" \/ hs[h].del) => bodyJobId = NoId
         /\ remote' = IF ok THEN remote \cup {hs[h].key} ELSE remote
         /\ Commit(
              LET S1 == IF ok THEN [Cur EXCEPT !.hs[h].putOk = @ \cup {hs[h].i}] ELSE Cur
              IN IF hs[h].del THEN [S1 EXCEPT !.hs[h].pc = "remove"]
                 ELSE IF ok THEN fileSucceeded(S1, h, bodyJobId)
                 ELSE perFileCatch(Threw(Cur, h), h, TransferError, bodyJobId))
    /\ UNCHANGED <<cstate, localFs, deletedBy, folderPath, dirTree, scan, client>>

\* await s3.upload(...).promise() returns
PutDone(h) ==
    /\ hs[h].pc = "put"
    /\ \E ok \in BOOLEAN, bodyJobId \in BodyJobIds(h) :
         /\ (hs[h].kind = "batch" \/ (ok /\ hs[h].del)) => bodyJobId = NoId
         /\ remote' = IF ok THEN remote \cup {hs[h].key} ELSE remote
         /\ Commit(
              IF ~ok THEN perFileCatch(Threw(Cur, h), h, TransferError, bodyJobId)
              ELSE LET S1 == [Cur EXCEPT !.hs[h].putOk = @ \cup {hs[h].i}]
                   IN IF hs[h].del THEN [S1 EXCEPT !.hs[h].pc = "remove"]
                      ELSE fileSucceeded(S1, h, bodyJobId))
    /\ UNCHANGED <<cstate, localFs, deletedBy, folderPath, dirTree, scan, client>>

\* await fs.remove(photoPath) returns
RemoveDone(h) ==
    /\ hs[h].pc = "remove"
    /\ LET f == hs[h].paths[hs[h].i] IN
       \E ok \in BOOLEAN, bodyJobId \in BodyJobIds(h) :
         /\ hs[h].kind = "batch" => bodyJobId = NoId
         /\ localFs' = IF ok THEN localFs \ {f} ELSE localFs
         /\ deletedBy' = IF ok /\ f \in localFs THEN deletedBy \cup {<<h, f>>} ELSE deletedBy
         /\ Commit(IF ok THEN fileSucceeded(Cur, h, bodyJobId)
                   ELSE perFileCatch(Threw(Cur, h), h, RemoveError, bodyJobId))
    /\ UNCHANGED <<cstate, remote, folderPath, dirTree, scan, client>>

(* --------------------- POST /api/upload-photos-batch ------------------ *)
\* the handler from its entry to the await of the first fs.stat; its keys
\* are always timestamped
StartBatch(h) ==
    /\ CanStart(h)
    /\ \E photoPaths \in PathLists, del \in BOOLEAN, configOk \in BOOLEAN :
         /\ Admissible(photoPaths)
         /\ ~HasFile(photoPaths) => ~del
         /\ LET S0 == [Cur EXCEPT
                         !.hs[h] = [IdleHandler EXCEPT !.kind = "batch", !.paths = photoPaths,
                                                       !.del = del, !.pres = FALSE]]
            IN Commit(IF configOk THEN enterIteration(S0, h, 1, NoId)
                      ELSE batchCatch(S0, h))
    /\ UNCHANGED <<cstate, localFs, remote, deletedBy, folderPath, dirTree, scan, client>>

(* ------------------------ POST /api/upload-photo ---------------------- *)
\* the catch of upload-photo: answer 500
singleCatch(S, h) ==
    [S EXCEPT !.resp[h] = Append(@, 500), !.hs[h].pc = "aborted"]

\* res.json({ success: true, s3Key })
finishSingle(S, h) ==
    [S EXCEPT !.resp[h] = Append(@, 200), !.hs[h].pc = "done",
              !.hs[h].results = <<[success |-> TRUE, s3Key |-> S.hs[h].key]>>]

\* the handler from its entry to the await of fs.stat: multer has stored a
\* copy of file f as req.file; with del, deleteAfterUpload is 'true' and
\* originalPath names f
StartSingle(h) ==
    /\ CanStart(h)
    /\ \E f \in Files, del \in BOOLEAN, configOk \in BOOLEAN :
         /\ Admissible(<<f>>)
         /\ LET S0 == [Cur EXCEPT
                         !.hs[h] = [IdleHandler EXCEPT !.kind = "single", !.paths = <<f>>,
                                                       !.i = 1, !.del = del, !.pres = FALSE]]
            IN Commit(IF configOk THEN [S0 EXCEPT !.hs[h].pc = "single_stat"]
                      ELSE singleCatch(S0, h))
    /\ UNCHANGED <<cstate, localFs, remote, deletedBy, folderPath, dirTree, scan, client>>

\* a request without a file: answer 400
RejectSingle(h) ==
    /\ CanStart(h)
    /\ Commit([Cur EXCEPT !.hs[h].kind = "single", !.hs[h].pc = "aborted",
                          !.resp[h] = Append(@, 400)])
    /\ UNCHANGED <<cstate, localFs, remote, deletedBy, folderPath, dirTree, scan, client>>

\* await fs.stat(photoFile.path) returns
SingleStatDone(h) ==
    /\ hs[h].pc = "single_stat"
    /\ LET f == hs[h].paths[1] IN
       \E ok \in BOOLEAN, now \in Timestamps :
         /\ ~ok => now = 1
         /\ Commit(
              IF ~ok THEN singleCatch(Cur, h)
              ELSE [Cur EXCEPT
                      !.hs[h].key = TimestampedKey(f, now),
                      !.hs[h].strategy = TransferStrategy(SizeOf(f)),
                      !.hs[h].pc = IF isLargeFile(SizeOf(f)) THEN "single_put"
                                   ELSE "single_read"])
    /\ UNCHANGED <<cstate, localFs, remote, deletedBy, folderPath, dirTree, scan, client>>

\* await fs.readFile(photoFile.path) returns
SingleReadDone(h) ==
    /\ hs[h].pc = "single_read"
    /\ \E ok \in BOOLEAN :
         Commit(IF ok THEN [Cur EXCEPT !.hs[h].pc = "single_put"] ELSE singleCatch(Cur, h))
    /\ UNCHANGED <<cstate, localFs, remote, deletedBy, folderPath, dirTree, scan, client>>

\* await s3.upload(uploadParams).promise() returns
SinglePutDone(h) ==
    /\ hs[h].pc = "single_put"
    /\ \E ok \in BOOLEAN :
         /\ remote' = IF ok THEN remote \cup {hs[h].key} ELSE remote
         /\ Commit(IF ok THEN [Cur EXCEPT !.hs[h].putOk = {1}, !.hs[h].pc = "single_untemp"]
                   ELSE singleCatch(Cur, h))
    /\ UNCHANGED <<cstate, localFs, deletedBy, folderPath, dirTree, scan, client>>

\* await fs.remove(photoFile.path) returns: the temporary copy is gone; the
\* original is removed next if that was asked for and fs.existsSync finds it
SingleTempRemoved(h) ==
    /\ hs[h].pc = "single_untemp"
    /\ \E ok \in BOOLEAN :
         Commit(IF ~ok THEN singleCatch(Cur, h)
                ELSE IF hs[h].del /\ hs[h].paths[1] \in localFs
                     THEN [Cur EXCEPT !.hs[h].pc = "single_remove"]
                     ELSE finishSingle(Cur, h))
    /\ UNCHANGED <<cstate, localFs, remote, deletedBy, folderPath, dirTree, scan, client>>

\* await fs.remove(originalPath) returns
SingleOriginalRemoved(h) ==
    /\ hs[h].pc = "single_remove"
    /\ LET f == hs[h].paths[1] IN
       \E ok \in BOOLEAN :
         /\ localFs' = IF ok THEN localFs \ {f} ELSE localFs
         /\ deletedBy' = IF ok /\ f \in localFs THEN deletedBy \cup {<<h, f>>} ELSE deletedBy
         /\ Commit(IF ok THEN finishSingle(Cur, h) ELSE singleCatch(Cur, h))
    /\ UNCHANGED <<cstate, remote, folderPath, dirTree, scan, client>>

(* ---------------------- POST /api/check-sync-status ------------------- *)
\* the keys s3.listObjectsV2 has still to return for Prefix `${baseFolderName}/`
\* after the page that ended at the key continuationToken
KeysAfter(bucket, continuationToken) ==
    {k \in bucket : /\ StartsWith(k, baseFolderName \o <<"/">>)
                    /\ (continuationToken = NoToken \/ KeyBefore(continuationToken, k))}

RECURSIVE FirstKeys(_, _)
\* the first n keys in listing order
FirstKeys(keys, n) ==
    IF n = 0 \/ keys = {} THEN {}
    ELSE LET k == CHOOSE x \in keys : \A y \in keys \ {x} : KeyBefore(x, y)
         IN {k} \cup FirstKeys(keys \ {k}, n - 1)

\* response.Contents of one listObjectsV2 call
ListContents(bucket, continuationToken) ==
    FirstKeys(KeysAfter(bucket, continuationToken), PageSize)

\* response.NextContinuationToken: set when the listing is truncated; the
\* next page starts after the last key of this one
NextContinuationToken(bucket, continuationToken) ==
    LET rest == KeysAfter(bucket, continuationToken)
        page == FirstKeys(rest, PageSize)
    IN IF rest = page THEN NoToken
       ELSE CHOOSE x \in page : \A y \in page \ {x} : KeyBefore(y, x)

\* obj.Key.replace(new RegExp(`^${baseFolderName}/`), '')
StripPrefix(key) ==
    LET n == RegExpMatch(baseFolderName \o <<"/">>, key)
    IN IF n = NoMatch THEN key ELSE SubSeq(key, n + 1, Len(key))

\* syncStatus[file.relativePath] = {...file, inS3, s3Key}; file.relativePath
\* is what the scan joined below the root
SyncEntry(f, s3Objects) ==
    [file |-> f, inS3 |-> LocalName(f) \in s3Objects,
     s3Key |-> baseFolderName \o <<"/">> \o LocalName(f)]

\* finishSync as it would be if it counted the entries of syncStatus in place
\* of the objects of the listing
finishSyncCountsEntries(S, h) ==
    LET S1 == [Publish(S, [type |-> "sync_status_result", jobId |-> h,
                           syncStatus |-> S.hs[h].syncStatus,
                           s3ObjectCount |-> Cardinality(DOMAIN S.hs[h].syncStatus)])
                 EXCEPT !.hs[h].nResults = @ + 1]
        S2 == complete(S1, h)
    IN [S2 EXCEPT !.timers = @ \cup {h}, !.hs[h].pc = "done"]

\* after the compare loop: sync_status_result broadcast, job.complete(), timer
finishSync(S, h) ==
    LET S1 == [Publish(S, [type |-> "sync_status_result", jobId |-> h,
                           syncStatus |-> S.hs[h].syncStatus,
                           s3ObjectCount |-> Cardinality(S.hs[h].s3Objects)])
                 EXCEPT !.hs[h].nResults = @ + 1]
        S2 == complete(S1, h)
    IN [S2 EXCEPT !.timers = @ \cup {h}, !.hs[h].pc = "done"]

RECURSIVE compareFrom(_, _, _, _)
\* the compare loop from the file at position i up to its next await
compareFrom(S, h, i, bodyJobId) ==
    LET localFiles == S.hs[h].paths
    IN IF i > Len(localFiles) THEN finishSync(S, h)
       ELSE IF localFiles[i] = BadPath
            THEN outerCatch([S EXCEPT !.hs[h].i = i], h, bodyJobId, "file is null")
            ELSE LET f == localFiles[i]
                     S1 == [S EXCEPT !.hs[h].i = i,
                                     !.hs[h].syncStatus =
                                        (LocalName(f) :> SyncEntry(f, S.hs[h].s3Objects)) @@ @]
                     S2 == updateProgress(S1, h, i, <<Basename(f)>>, NULL)
                 IN IF (i - 1) % PauseEvery = 0
                    THEN [S2 EXCEPT !.hs[h].pc = "pause"]
                    ELSE compareFrom(S2, h, i + 1, bodyJobId)

\* the handler from its entry to the await of the first listObjectsV2
StartSync(h) ==
    /\ CanStart(h)
    /\ \E localFiles \in PathLists, configOk \in BOOLEAN, bodyJobId \in BodyJobIds(h) :
         /\ Admissible(localFiles)
         /\ configOk => bodyJobId = NoId
         /\ LET S0 == createJob(
                         [Cur EXCEPT !.hs[h] = [IdleHandler EXCEPT !.kind = "sync_check",
                                                                   !.paths = localFiles]],
                         h, "sync_check", Len(localFiles))
            IN Commit(IF configOk THEN [S0 EXCEPT !.hs[h].pc = "list"]
                      ELSE outerCatch(S0, h, bodyJobId, "config is undefined"))
    /\ UNCHANGED <<cstate, localFs, remote, deletedBy, folderPath, dirTree, scan, client>>

\* a body without localFiles: localFiles.length throws before the job exists
RejectSync(h) ==
    /\ CanStart(h)
    /\ \E bodyJobId \in BodyJobIds(h) :
         Commit(outerCatch([Cur EXCEPT !.hs[h].kind = "sync_check"], h, bodyJobId,
                           "localFiles is undefined"))
    /\ UNCHANGED <<cstate, localFs, remote, deletedBy, folderPath, dirTree, scan, client>>

\* ListDone as it would be if the compare loop started after the first page
ListDoneOnePage(h) ==
    /\ hs[h].pc = "list"
    /\ hs[h].kind = "sync_check"
    /\ \E ok \in BOOLEAN, bodyJobId \in BodyJobIds(h) :
         LET S1 == [Cur EXCEPT
                      !.hs[h].s3Objects =
                         @ \cup {StripPrefix(k) : k \in ListContents(remote, hs[h].token)},
                      !.hs[h].token = NoToken]
         IN Commit(IF ~ok THEN outerCatch(Cur, h, bodyJobId, "list failed")
                   ELSE compareFrom(S1, h, 1, bodyJobId))
    /\ UNCHANGED <<cstate, localFs, remote, deletedBy, folderPath, dirTree, scan, client>>

\* ListDone as it would be if the loop did not hand the token of a response
\* to its next request
ListDoneDropsToken(h) ==
    /\ hs[h].pc = "list"
    /\ hs[h].kind = "sync_check"
    /\ \E ok \in BOOLEAN, bodyJobId \in BodyJobIds(h) :
         LET token == NextContinuationToken(remote, hs[h].token)
             S1 == [Cur EXCEPT
                      !.hs[h].s3Objects =
                         @ \cup {StripPrefix(k) : k \in ListContents(remote, hs[h].token)},
                      !.hs[h].token = NoToken,
                      !.hs[h].pages = IF @ < 3 THEN @ + 1 ELSE @]
         IN Commit(IF ~ok THEN outerCatch(Cur, h, bodyJobId, "list failed")
                   ELSE IF token # NoToken THEN S1
                   ELSE compareFrom(S1, h, 1, bodyJobId))
    /\ UNCHANGED <<cstate, localFs, remote, deletedBy, folderPath, dirTree, scan, client>>

\* await s3.listObjectsV2(params).promise() returns
ListDone(h) ==
    /\ hs[h].pc = "list"
    /\ hs[h].kind = "sync_check"
    /\ \E ok \in BOOLEAN, bodyJobId \in BodyJobIds(h) :
         LET token == NextContinuationToken(remote, hs[h].token)
             S1 == [Cur EXCEPT
                      !.hs[h].s3Objects =
                         @ \cup {StripPrefix(k) : k \in ListContents(remote, hs[h].token)},
                      !.hs[h].token = token,
                      !.hs[h].pages = @ + 1]
         IN Commit(IF ~ok THEN outerCatch(Cur, h, bodyJobId, "list failed")
                   ELSE IF token # NoToken THEN S1
                   ELSE compareFrom(S1, h, 1, bodyJobId))
    /\ UNCHANGED <<cstate, localFs, remote, deletedBy, folderPath, dirTree, scan, client>>

\* the setTimeout(resolve, 10) of the compare loop fires
PauseDone(h) ==
    /\ hs[h].pc = "pause"
    /\ \E bodyJobId \in BodyJobIds(h) :
         Commit(compareFrom(Cur, h, hs[h].i + 1, bodyJobId))
    /\ UNCHANGED <<cstate, localFs, remote, deletedBy, folderPath, dirTree, scan, client>>

(* ------------------ POST /api/check-sync-status-simple ---------------- *)
\* the catch of check-sync-status-simple: answer 500
simpleCatch(S, h) ==
    [S EXCEPT !.resp[h] = Append(@, 500), !.hs[h].pc = "aborted"]

RECURSIVE simpleCompareFromBroadcasts(_, _, _)
\* simpleCompareFrom as it would be if the synchronous endpoint, like the
\* tracked one, also broadcast its result
simpleCompareFromBroadcasts(S, h, i) ==
    LET localFiles == S.hs[h].paths
    IN IF i > Len(localFiles)
       THEN [Publish(S, [type |-> "sync_status_result", jobId |-> NoId,
                         syncStatus |-> S.hs[h].syncStatus,
                         s3ObjectCount |-> Cardinality(S.hs[h].s3Objects)])
               EXCEPT !.resp[h] = Append(@, 200),
                      !.hs[h].body = [syncStatus |-> S.hs[h].syncStatus,
                                      s3ObjectCount |-> Cardinality(S.hs[h].s3Objects)],
                      !.hs[h].pc = "done"]
       ELSE IF localFiles[i] = BadPath
            THEN simpleCatch([S EXCEPT !.hs[h].i = i], h)
            ELSE LET f == localFiles[i]
                 IN simpleCompareFromBroadcasts(
                      [S EXCEPT !.hs[h].i = i,
                                !.hs[h].syncStatus =
                                   (LocalName(f) :> SyncEntry(f, S.hs[h].s3Objects)) @@ @],
                      h, i + 1)

RECURSIVE simpleCompareFrom(_, _, _)
\* the for..of loop from the file at position i, then res.json
simpleCompareFrom(S, h, i) ==
    LET localFiles == S.hs[h].paths
    IN IF i > Len(localFiles)
       THEN [S EXCEPT !.resp[h] = Append(@, 200),
                      !.hs[h].body = [syncStatus |-> S.hs[h].syncStatus,
                                      s3ObjectCount |-> Cardinality(S.hs[h].s3Objects)],
                      !.hs[h].pc = "done"]
       ELSE IF localFiles[i] = BadPath
            THEN simpleCatch([S EXCEPT !.hs[h].i = i], h)
            ELSE LET f == localFiles[i]
                 IN simpleCompareFrom(
                      [S EXCEPT !.hs[h].i = i,
                                !.hs[h].syncStatus =
                                   (LocalName(f) :> SyncEntry(f, S.hs[h].s3Objects)) @@ @],
                      h, i + 1)

\* the handler from its entry to the await of the first listObjectsV2
StartSimple(h) ==
    /\ CanStart(h)
    /\ \E localFiles \in PathLists, configOk \in BOOLEAN :
         /\ Admissible(localFiles)
         /\ LET S0 == [Cur EXCEPT
                         !.hs[h] = [IdleHandler EXCEPT !.kind = "sync_simple",
                                                       !.paths = localFiles]]
            IN Commit(IF configOk THEN [S0 EXCEPT !.hs[h].pc = "list"]
                      ELSE simpleCatch(S0, h))
    /\ UNCHANGED <<cstate, localFs, remote, deletedBy, folderPath, dirTree, scan, client>>

\* SimpleListDone as it would be if the reconciliation pruned the bucket: it
\* deletes the listed keys that belong to none of the local files
SimpleListDonePrunes(h) ==
    /\ hs[h].pc = "list"
    /\ hs[h].kind = "sync_simple"
    /\ \E ok \in BOOLEAN :
         LET token == NextContinuationToken(remote, hs[h].token)
             page == ListContents(remote, hs[h].token)
             S1 == [Cur EXCEPT
                      !.hs[h].s3Objects = @ \cup {StripPrefix(k) : k \in page},
                      !.hs[h].token = token,
                      !.hs[h].pages = @ + 1]
         IN /\ remote' = IF ok THEN remote \ {k \in page : \A i \in 1..Len(hs[h].paths) :
                                                 hs[h].paths[i] = BadPath
                                                 \/ StripPrefix(k) # LocalName(hs[h].paths[i])}
                         ELSE remote
            /\ Commit(IF ~ok THEN simpleCatch(Cur, h)
                      ELSE IF token # NoToken THEN S1
                      ELSE simpleCompareFrom(S1, h, 1))
    /\ UNCHANGED <<cstate, localFs, deletedBy, folderPath, dirTree, scan, client>>

\* await s3.listObjectsV2(params).promise() returns
SimpleListDone(h) ==
    /\ hs[h].pc = "list"
    /\ hs[h].kind = "sync_simple"
    /\ \E ok \in BOOLEAN :
         LET token == NextContinuationToken(remote, hs[h].token)
             S1 == [Cur EXCEPT
                      !.hs[h].s3Objects =
                         @ \cup {StripPrefix(k) : k \in ListContents(remote, hs[h].token)},
                      !.hs[h].token = token,
                      !.hs[h].pages = @ + 1]
         IN Commit(IF ~ok THEN simpleCatch(Cur, h)
                   ELSE IF token # NoToken THEN S1
                   ELSE simpleCompareFrom(S1, h, 1))
    /\ UNCHANGED <<cstate, localFs, remote, deletedBy, folderPath, dirTree, scan, client>>

\* the cleanup timer fires: jobs.delete(jobId)
Retire(j) ==
    /\ j \in timers
    /\ timers' = timers \ {j}
    /\ jobsMap' = RemoveFirst(jobsMap, j)
    /\ sent' = [d \in Clients |-> <<>>]
    /\ mutLog' = <<>>
    /\ published' = <<>>
    /\ UNCHANGED <<hs, job, cstate, resp, localFs, remote, deletedBy, folderPath, dirTree, scan, client>>

(* ------------------------- wss.on('connection') ----------------------- *)
\* Connect as it would be if the snapshot listed the running jobs only
ConnectRunningOnly(c) ==
    /\ cstate[c] = "closed"
    /\ cstate' = [cstate EXCEPT ![c] = "open"]
    /\ sent' = [d \in Clients |->
                  IF d = c
                  THEN <<[type |-> "jobs_list",
                          jobs |-> SelectSeq([k \in 1..Len(jobsMap) |-> job[jobsMap[k]]],
                                             LAMBDA j : j.status = "running")]>>
                  ELSE <<>>]
    /\ mutLog' = <<>>
    /\ published' = <<>>
    /\ UNCHANGED <<hs, job, jobsMap, timers, resp, localFs, remote, deletedBy, folderPath, dirTree, scan, client>>

\* a client connects in slot c: it joins wss.clients and is sent the jobs_list
Connect(c) ==
    /\ cstate[c] = "closed"
    /\ cstate' = [cstate EXCEPT ![c] = "open"]
    /\ sent' = [d \in Clients |->
                  IF d = c
                  THEN <<[type |-> "jobs_list",
                          jobs |-> [k \in 1..Len(jobsMap) |-> job[jobsMap[k]]]]>>
                  ELSE <<>>]
    /\ mutLog' = <<>>
    /\ published' = <<>>
    /\ UNCHANGED <<hs, job, jobsMap, timers, resp, localFs, remote, deletedBy, folderPath, dirTree, scan, client>>

\* a client's socket leaves the OPEN state
Disconnect(c) ==
    /\ cstate[c] = "open"
    /\ cstate' = [cstate EXCEPT ![c] = "closed"]
    /\ sent' = [d \in Clients |-> <<>>]
    /\ mutLog' = <<>>
    /\ published' = <<>>
    /\ UNCHANGED <<hs, job, jobsMap, timers, resp, localFs, remote, deletedBy, folderPath, dirTree, scan, client>>

Next ==
    \/ \E h \in Requests : StartUpload(h)
    \/ \E h \in Requests : RejectUpload(h)
    \/ \E h \in Requests : StatDone(h)
    \/ \E h \in Requests : ReadDone(h)
    \/ \E h \in Requests : UploadProgress(h)
    \/ \E h \in Requests : PutDone(h)
    \/ \E h \in Requests : RemoveDone(h)
    \/ \E h \in Requests : StartBatch(h)
    \/ \E h \in Requests : StartSingle(h)
    \/ \E h \in Requests : RejectSingle(h)
    \/ \E h \in Requests : SingleStatDone(h)
    \/ \E h \in Requests : SingleReadDone(h)
    \/ \E h \in Requests : SinglePutDone(h)
    \/ \E h \in Requests : SingleTempRemoved(h)
    \/ \E h \in Requests : SingleOriginalRemoved(h)
    \/ \E h \in Requests : StartSync(h)
    \/ \E h \in Requests : RejectSync(h)
    \/ \E h \in Requests : ListDone(h)
    \/ \E h \in Requests : PauseDone(h)
    \/ \E j \in Requests : Retire(j)
    \/ \E c \in Clients : Connect(c)
    \/ \E c \in Clients : Disconnect(c)

Spec == Init /\ [][Next]_vars

\* the same server when the progress events of a failed streaming transfer can
\* outlive it
NextLate ==
    \/ Next
    \/ \E h \in Requests : LateUploadProgress(h)

SpecLate == Init /\ [][NextLate]_vars

(* ------------- reconciliation against a bucket that holds keys -------- *)
\* the key under which an upload that preserved the structure stored file f
\* of the folder root
UploadedKey(root, f) ==
    PathBasename(expandTilde(root)) \o <<"/">> \o ReplaceBackslashes(LocalName(f))

\* what earlier runs may have left in the bucket
StoredKeys == {UploadedKey(root, f) : root \in FolderPaths, f \in Files}

InitSync ==
    \E fp \in FolderPaths, bucket \in SUBSET StoredKeys : InitWith(fp, bucket)

\* the two reconciliation endpoints and the clients, with no upload running
NextSync ==
    \/ \E h \in Requests : StartSync(h)
    \/ \E h \in Requests : RejectSync(h)
    \/ \E h \in Requests : ListDone(h)
    \/ \E h \in Requests : PauseDone(h)
    \/ \E h \in Requests : StartSimple(h)
    \/ \E h \in Requests : SimpleListDone(h)
    \/ \E j \in Requests : Retire(j)
    \/ \E c \in Clients : Connect(c)
    \/ \E c \in Clients : Disconnect(c)

SpecSync == InitSync /\ [][NextSync]_vars

\* the two reconciliation endpoints without subscribers and cleanup timers
NextListing ==
    \/ \E h \in Requests : StartSync(h)
    \/ \E h \in Requests : RejectSync(h)
    \/ \E h \in Requests : ListDone(h)
    \/ \E h \in Requests : PauseDone(h)
    \/ \E h \in Requests : StartSimple(h)
    \/ \E h \in Requests : SimpleListDone(h)

\* every awaited listObjectsV2 call settles in the end
SpecListing ==
    /\ InitSync
    /\ [][NextListing]_vars
    /\ \A h \in Requests : WF_vars(ListDone(h)) /\ WF_vars(SimpleListDone(h))

(* ------------------------ the Job class on its own -------------------- *)
\* new Job(id, type, totalItems) followed by jobs.set(id, job), for a list of
\* any length up to MaxTotalItems
InitJob ==
    \E totalItems \in 0..MaxTotalItems, type \in {"upload", "sync_check"} :
        /\ hs = [h \in Requests |-> IdleHandler]
        /\ job = [h \in Requests |-> IF h = 1 THEN NewJob(1, type, totalItems) ELSE NoJob]
        /\ jobsMap = <<1>>
        /\ timers = {}
        /\ cstate = [c \in Clients |-> "closed"]
        /\ sent = [c \in Clients |-> <<>>]
        /\ resp = [h \in Requests |-> <<>>]
        /\ localFs = Files
        /\ remote = {}
        /\ mutLog = <<>>
        /\ deletedBy = {}
        /\ dirTree = EmptyTree
        /\ scan = IdleScan
        /\ client = InitClient
    /\ client = InitClient
        /\ published = <<>>
        /\ folderPath = DefaultFolderPath

\* job.updateProgress(completedItems, currentItem, error) as the loops call it:
\* for an item of the list, with or without an error message
JobUpdateProgress(j) ==
    /\ j \in Range(jobsMap)
    /\ \E completedItems \in 0..job[j].totalItems, f \in Files,
          error \in {NULL, TransferError} :
         /\ job[j].totalItems > 0
         /\ error # NULL => Len(job[j].errors) < job[j].totalItems
         /\ Commit(updateProgress(Cur, j, completedItems, <<LocalName(f)>>, error))
    /\ UNCHANGED <<cstate, localFs, remote, deletedBy, folderPath, dirTree, scan, client>>

\* job.complete()
JobComplete(j) ==
    /\ j \in Range(jobsMap)
    /\ Commit(complete(Cur, j))
    /\ UNCHANGED <<cstate, localFs, remote, deletedBy, folderPath, dirTree, scan, client>>

\* job.fail(error.message)
JobFail(j) ==
    /\ j \in Range(jobsMap)
    /\ Len(job[j].errors) <= job[j].totalItems
    /\ Commit(fail(Cur, j, TransferError))
    /\ UNCHANGED <<cstate, localFs, remote, deletedBy, folderPath, dirTree, scan, client>>

NextJob ==
    \/ \E j \in Requests : JobUpdateProgress(j)
    \/ \E j \in Requests : JobComplete(j)
    \/ \E j \in Requests : JobFail(j)
    \/ \E c \in Clients : Connect(c)
    \/ \E c \in Clients : Disconnect(c)

SpecJob == InitJob /\ [][NextJob]_vars

(* ------------------------- POST /api/scan-photos ---------------------- *)
\* The tree below the root folder is dirTree.entries: entry k lies in the
\* folder dirTree.entries[k].parent (0 is the root), and fs.readdir lists the
\* entries of a folder by rising k.  dirTree.exists is fs.existsSync of the root.
\* the names an entry can carry: a media name, one in capitals, a script, and
\* a dot file
EntryNames == { <<"a", ".", "t", "s">>, <<"b", ".", "T", "S">>,
                <<"c", ".", "j", "s">>, <<".", "t", "s">> }
\* what fs.stat reports: a directory, a regular file, or neither (a socket)
EntryKinds == {"dir", "file", "other"}

\* parents come first and are directories; the names of one folder differ
IsTree(t) ==
    /\ \A k \in 1..Len(t) :
         t[k].parent = 0 \/ (t[k].parent < k /\ t[t[k].parent].kind = "dir")
    /\ \A k, m \in 1..Len(t) :
         (k # m /\ t[k].parent = t[m].parent) => t[k].name # t[m].name

Trees ==
    UNION { { t \in [1..n -> [parent : 0..(MaxEntries - 1), kind : EntryKinds,
                              name : EntryNames]] : IsTree(t) } : n \in 0..MaxEntries }

\* stats.size of entry k
EntrySize(k) == k

\* String.prototype.toLowerCase over the characters of the names
ToLowerCase(str) ==
    [k \in 1..Len(str) |-> CASE str[k] = "T" -> "t" [] str[k] = "S" -> "s"
                             [] OTHER -> str[k]]

\* path.extname: from the last "." of the name to its end; empty when there
\* is no "." or when the only "." opens the name
PathExtname(name) ==
    LET dots == {k \in 1..Len(name) : name[k] = "."}
        last == IF dots = {} THEN 0 ELSE CHOOSE k \in dots : \A m \in dots : m <= k
    IN IF last <= 1 THEN <<>> ELSE SubSeq(name, last, Len(name))

\* getSupportedExtensions(), the entries of the list over the characters of
\* the names: '.ts' and '.rm'
getSupportedExtensions == { <<".", "t", "s">>, <<".", "r", "m">> }

\* isImageFile as it would be without toLowerCase()
isImageFileCaseSensitive(filename) == PathExtname(filename) \in getSupportedExtensions

isImageFile(filename) == ToLowerCase(PathExtname(filename)) \in getSupportedExtensions

\* path.join(a, b) for a relative path a that may be ''
PathJoin(a, b) == IF a = <<>> THEN b ELSE a \o <<"/">> \o b

\* fs.readdir(dirPath) for the folder that is entry dir
Children(dir) ==
    SelectSeq([k \in 1..Len(dirTree.entries) |-> k],
              LAMBDA k : dirTree.entries[k].parent = dir)

\* the folderData a scanDirectory call starts from
NewFolderData(dirPath, relativePath) ==
    [name |-> PathBasename(dirPath), path |-> relativePath, photos |-> <<>>,
     subfolders |-> <<>>, photoCount |-> 0, totalSize |-> 0]

\* the frame of a scanDirectory call that awaits fs.readdir
NewFrame(dir, dirPath, relativePath) ==
    [dir |-> dir, dirPath |-> dirPath, relativePath |-> relativePath,
     items |-> <<>>, idx |-> 0, folderData |-> NewFolderData(dirPath, relativePath)]

\* the body of a response that carries no tree
ErrorBody(msg) == [error |-> msg]

\* the catch of scan-photos: answer 500
scanCatch(sc) ==
    [sc EXCEPT !.pc = "aborted", !.stack = <<>>,
               !.resp = Append(@, [code |-> 500, body |-> ErrorBody("Failed to scan media files")])]

\* folderData after `subfolders[item] = subfolder` with the sums left as they were
addSubfolderNoSums(folderData, item, subfolder) ==
    [folderData EXCEPT
        !.subfolders = [x \in DOMAIN @ \cup {item} |-> IF x = item THEN subfolder ELSE @[x]]]

\* folderData.subfolders[item] = subfolder; photoCount and totalSize += its sums
addSubfolder(folderData, item, subfolder) ==
    [folderData EXCEPT
        !.subfolders = [x \in DOMAIN @ \cup {item} |-> IF x = item THEN subfolder ELSE @[x]],
        !.photoCount = @ + subfolder.photoCount,
        !.totalSize = @ + subfolder.totalSize]

RECURSIVE scanContinue(_)
\* the scan from the head of the for loop of the innermost call up to its
\* next await: a call whose items are used up returns folderData to the call
\* that awaits it, the outermost one to the handler, which answers
scanContinue(sc) ==
    LET n == Len(sc.stack)
        top == sc.stack[n]
    IN IF top.idx <= Len(top.items) THEN [sc EXCEPT !.pc = "stat"]
       ELSE IF n = 1
       THEN [sc EXCEPT !.pc = "done", !.stack = <<>>,
                       !.resp = Append(@, [code |-> 200,
                                           body |-> [folderStructure |-> top.folderData,
                                                     totalPhotos |-> sc.totalPhotos]])]
       ELSE LET caller == sc.stack[n - 1]
                item == dirTree.entries[caller.items[caller.idx]].name
            IN scanContinue(
                 [sc EXCEPT !.stack = Append(SubSeq(sc.stack, 1, n - 2),
                      [caller EXCEPT !.folderData = addSubfolder(@, item, top.folderData),
                                     !.idx = @ + 1])])

\* the handler as it would start without the fs.existsSync test
StartScanUnchecked ==
    /\ scan.pc = "idle"
    /\ scan' = [scan EXCEPT !.pc = "readdir",
                            !.stack = <<NewFrame(0, expandTilde(folderPath), <<>>)>>]
    /\ UNCHANGED <<hs, job, jobsMap, timers, cstate, sent, resp, localFs, remote, mutLog,
                   deletedBy, published, folderPath, dirTree, client>>

\* the handler from its entry to the await of fs.readdir of the root
StartScan ==
    /\ scan.pc = "idle"
    /\ scan' = IF ~dirTree.exists
               THEN [scan EXCEPT !.pc = "done",
                       !.resp = Append(@, [code |-> 400,
                                           body |-> ErrorBody("Folder path does not exist")])]
               ELSE [scan EXCEPT !.pc = "readdir",
                       !.stack = <<NewFrame(0, expandTilde(folderPath), <<>>)>>]
    /\ UNCHANGED <<hs, job, jobsMap, timers, cstate, sent, resp, localFs, remote, mutLog,
                   deletedBy, published, folderPath, dirTree, client>>

\* a request whose body has no folderPath: expandTilde throws on undefined
StartScanNoPath ==
    /\ scan.pc = "idle"
    /\ scan' = scanCatch([scan EXCEPT !.hasPath = FALSE])
    /\ UNCHANGED <<hs, job, jobsMap, timers, cstate, sent, resp, localFs, remote, mutLog,
                   deletedBy, published, folderPath, dirTree, client>>

\* await fs.readdir(dirPath) returns
ReaddirDone ==
    /\ scan.pc = "readdir"
    /\ \E ok \in BOOLEAN :
         LET n == Len(scan.stack)
             top == scan.stack[n]
         IN scan' = IF ~ok THEN scanCatch(scan)
                    ELSE scanContinue([scan EXCEPT !.stack[n].items = Children(top.dir),
                                                   !.stack[n].idx = 1])
    /\ UNCHANGED <<hs, job, jobsMap, timers, cstate, sent, resp, localFs, remote, mutLog,
                   deletedBy, published, folderPath, dirTree, client>>

\* the loop body after a stat that succeeded
statSucceeded(sc) ==
    LET n == Len(sc.stack)
        top == sc.stack[n]
        k == top.items[top.idx]
        item == dirTree.entries[k].name
        itemPath == top.dirPath \o <<"/">> \o item
        relativeItemPath == PathJoin(top.relativePath, item)
    IN IF dirTree.entries[k].kind = "dir"
       THEN [sc EXCEPT !.pc = "readdir",
                       !.stack = Append(@, NewFrame(k, itemPath, relativeItemPath))]
       ELSE IF dirTree.entries[k].kind = "file" /\ isImageFile(item)
       THEN scanContinue(
              [sc EXCEPT !.stack[n].folderData.photos =
                             Append(@, [name |-> item, size |-> EntrySize(k),
                                        path |-> itemPath,
                                        relativePath |-> relativeItemPath]),
                         !.stack[n].folderData.photoCount = @ + 1,
                         !.stack[n].folderData.totalSize = @ + EntrySize(k),
                         !.totalPhotos = @ + 1,
                         !.stack[n].idx = @ + 1])
       ELSE scanContinue([sc EXCEPT !.stack[n].idx = @ + 1])

\* the entry whose stat the innermost call awaits
StatTarget(sc) == sc.stack[Len(sc.stack)].items[sc.stack[Len(sc.stack)].idx]

\* the loop as it would be if an entry whose stat fails were skipped
afterStatSkips(sc, ok) ==
    IF ~ok
    THEN scanContinue([sc EXCEPT !.statFailed = Append(@, StatTarget(sc)),
                                 !.stack[Len(sc.stack)].idx = @ + 1])
    ELSE statSucceeded(sc)

\* await fs.stat(itemPath) returns or throws; nothing in scanDirectory
\* catches, so the rejection reaches the catch of the handler
afterStat(sc, ok) ==
    IF ~ok THEN scanCatch([sc EXCEPT !.statFailed = Append(@, StatTarget(sc))])
    ELSE statSucceeded(sc)

\* await fs.stat(itemPath) settles
ScanStatDone ==
    /\ scan.pc = "stat"
    /\ \E ok \in BOOLEAN : scan' = afterStat(scan, ok)
    /\ UNCHANGED <<hs, job, jobsMap, timers, cstate, sent, resp, localFs, remote, mutLog,
                   deletedBy, published, folderPath, dirTree, client>>

\* the server before a scan, with a root folder that is missing or holds any
\* tree of the bounds
InitScan ==
    /\ hs = [h \in Requests |-> IdleHandler]
    /\ job = [h \in Requests |-> NoJob]
    /\ jobsMap = <<>>
    /\ timers = {}
    /\ cstate = [c \in Clients |-> "closed"]
    /\ sent = [c \in Clients |-> <<>>]
    /\ resp = [h \in Requests |-> <<>>]
    /\ localFs = Files
    /\ remote = {}
    /\ mutLog = <<>>
    /\ deletedBy = {}
    /\ published = <<>>
    /\ folderPath = DefaultFolderPath
    /\ \E exists \in BOOLEAN, t \in Trees :
         /\ ~exists => t = <<>>
         /\ dirTree = [exists |-> exists, entries |-> t]
    /\ scan = IdleScan
    /\ client = InitClient

NextScan ==
    \/ StartScan
    \/ StartScanNoPath
    \/ ReaddirDone
    \/ ScanStatDone

SpecScan == InitScan /\ [][NextScan]_vars

(* ============================== properties ============================ *)
Terminal(j) == job[j] # NoJob /\ job[j].status \in {"completed", "failed"}
Created(h) == job[h] # NoJob
Ended(h) == hs[h].pc \in {"done", "aborted"}
\* handler h returns from its loop in this step
Finishes(h) == hs[h].pc \notin {"done", "aborted"} /\ hs'[h].pc = "done"

RECURSIVE Count(_, _)
\* the number of occurrences of x in the sequence s
Count(s, x) ==
    IF s = <<>> THEN 0 ELSE (IF Head(s) = x THEN 1 ELSE 0) + Count(Tail(s), x)

RECURSIVE JobUpdates(_)
\* the Job objects carried by the job_update messages of a message sequence
JobUpdates(msgs) ==
    IF msgs = <<>> THEN <<>>
    ELSE (IF Head(msgs).type = "job_update" THEN <<Head(msgs).job>> ELSE <<>>)
         \o JobUpdates(Tail(msgs))

\* C1: once the status of a job is completed or failed, no step changes it
C1_TerminalStatusNeverChanges ==
    [][\A j \in Requests : Terminal(j) => job'[j].status = job[j].status]_vars

\* C2: a created job whose handler has run to its end (every awaited call has
\* returned) is in a terminal state
C2_EndedJobIsTerminal ==
    \A h \in Requests : (Created(h) /\ Ended(h)) => Terminal(h)

\* C3: when the handler of a created job is ended by an error outside the
\* per-file loop, that job has status failed, the error is the last of its
\* errors and the job update with status failed was broadcast in that step
C3_OuterErrorFailsJob ==
    [][\A h \in Requests :
         (hs[h].pc # "aborted" /\ hs'[h].pc = "aborted" /\ job'[h] # NoJob)
         => /\ job'[h].status = "failed"
            /\ job'[h].errors # <<>>
            /\ \E k \in 1..Len(mutLog') : mutLog'[k].id = h /\ mutLog'[k].status = "failed"]_vars

\* C4: a request that was answered with the job id receives exactly one
\* response: no second response is written or attempted on it
C4_SingleResponse ==
    \A h \in Requests : Created(h) => Len(resp[h]) = 1

C6_DeleteOnlyAfterPut ==
    /\ \A f \in Files \ localFs : \E h \in Requests : <<h, f>> \in deletedBy
    /\ \A d \in deletedBy :
         LET h == d[1] IN
         /\ hs[h].del
         /\ \E k \in hs[h].putOk : hs[h].paths[k] = d[2]
         /\ \E now \in Timestamps :
              (IF hs[h].kind \in {"batch", "single"} THEN TimestampedKey(d[2], now)
               ELSE DestinationKey(hs[h].pres, d[2], now)) \in remote

\* C6 witness: a file was deleted, and a concurrent request without
\* deleteAfterUpload has put a file and left it in place
C6_Witness ==
    /\ deletedBy # {}
    /\ \E h \in Requests : ~hs[h].del /\ hs[h].putOk # {} /\ Ended(h)
                           /\ hs[h].paths[1] \in localFs

\* C7: when an upload-folder handler has ended, it has emitted exactly one
\* file_upload_success for each file whose put succeeded, and none for the
\* others
C7_OneSuccessPerPut ==
    \A h \in Requests :
        (hs[h].kind = "upload" /\ Ended(h))
        => \A k \in 1..Len(hs[h].paths) :
             Count(hs[h].notified, k) = IF k \in hs[h].putOk THEN 1 ELSE 0

\* C8: every upload-folder job whose handler has ended has had exactly one
\* upload_result broadcast
C8_OneResultPerBatch ==
    \A h \in Requests :
        (hs[h].kind = "upload" /\ Created(h) /\ Ended(h)) => hs[h].nResults = 1

\* C9: nothing is sent to a socket that is not open, and the step that opens
\* one sends it exactly one message, a jobs_list holding the current state of
\* every job of the registry
C9_SnapshotFirst ==
    [][\A c \in Clients :
         /\ cstate'[c] = "closed" => sent'[c] = <<>>
         /\ (cstate[c] = "closed" /\ cstate'[c] = "open")
            => /\ Len(sent'[c]) = 1
               /\ sent'[c][1].type = "jobs_list"
               /\ Len(sent'[c][1].jobs) = Len(jobsMap')
               /\ Range(sent'[c][1].jobs) = {job'[j] : j \in Range(jobsMap')}]_vars

\* C9 witness: a client has just connected in the middle of a two-file upload
\* and its snapshot shows the job running with one item completed
C9_Witness ==
    \E c \in Clients :
        /\ cstate[c] = "open" /\ Len(sent[c]) = 1 /\ sent[c][1].type = "jobs_list"
        /\ \E k \in 1..Len(sent[c][1].jobs) :
             LET j == sent[c][1].jobs[k] IN
             /\ j.status = "running" /\ j.totalItems = 2 /\ j.completedItems = 1
             /\ j.progress = 50 /\ j.currentItem # <<>>

\* C10: in every step, each client whose socket is open receives one job_update
\* per updateProgress/complete/fail call of the step, in call order, each
\* carrying the Job as that call left it; and a job whose fields changed was
\* changed by such a call, whose last update carries its new state
C10_OneUpdatePerMutation ==
    [][/\ \A c \in Clients :
            (cstate[c] = "open" /\ cstate'[c] = "open") => JobUpdates(sent'[c]) = mutLog'
       /\ \A j \in Requests :
            (job[j] # NoJob /\ job'[j] # job[j])
            => \E k \in 1..Len(mutLog') :
                 /\ mutLog'[k] = job'[j]
                 /\ \A m \in (k + 1)..Len(mutLog') : mutLog'[m].id # j]_vars

\* C10 witness: one step made two calls and an open client got the two
\* updates, the last one with status completed
C10_Witness ==
    \E c \in Clients :
        /\ cstate[c] = "open" /\ Len(mutLog) = 2
        /\ JobUpdates(sent[c]) = mutLog
        /\ mutLog[2].status = "completed"

\* C11: every client whose socket stays open through a step is handed the
\* messages published in that step, all of them and in the order in which they
\* were published (the steps themselves follow one another)
C11_DeliveryInPublishOrder ==
    [][\A c \in Clients :
         (cstate[c] = "open" /\ cstate'[c] = "open") => sent'[c] = published']_vars

\* C11 witness: one step published a file_upload_success, a job_update, the
\* upload_result and the final job_update, and an open client got them in
\* that order
C11_Witness ==
    \E c \in Clients :
        /\ cstate[c] = "open" /\ Len(published) = 4 /\ sent[c] = published
        /\ published[1].type = "file_upload_success"
        /\ published[2].type = "job_update" /\ published[2].job.status = "running"
        /\ published[3].type = "upload_result"
        /\ published[4].type = "job_update" /\ published[4].job.status = "completed"

\* C12: a job that has reached completed or failed and whose handler has ended
\* is either gone from the registry or has its cleanup timer pending (so that
\* it is gone once the delay has passed), and a job whose timer is pending is
\* not running
C12_TerminalJobRetires ==
    \A j \in Requests :
        /\ (Terminal(j) /\ Ended(j) /\ j \in Range(jobsMap)) => j \in timers
        /\ j \in timers => Terminal(j)

\* the handlers of the two reconciliation endpoints
SyncKinds == {"sync_check", "sync_simple"}
\* the membership set that the listing of the whole bucket yields
FullSet == {StripPrefix(k) : k \in KeysAfter(remote, NoToken)}

\* C13: while the bucket does not change, a reconciliation that has computed
\* the presence flag of some file has fetched the last page (no continuation
\* token is left), its membership set holds the keys of every page, and each
\* flag it has computed is the membership of the path in that full set
C13_FullListingBeforeCompare ==
    \A h \in Requests :
        (hs[h].kind \in SyncKinds /\ DOMAIN hs[h].syncStatus # {})
        => /\ hs[h].token = NoToken
           /\ hs[h].s3Objects = FullSet
           /\ \A rel \in DOMAIN hs[h].syncStatus :
                hs[h].syncStatus[rel].inS3 = (rel \in FullSet)

\* C13 witness: a tracked reconciliation has finished after a listing of two
\* pages, and it found a file whose key came with the second page
C13_Witness ==
    \E h \in Requests :
        /\ hs[h].kind = "sync_check" /\ hs[h].pc = "done"
        /\ Cardinality(hs[h].s3Objects) = 2 /\ PageSize = 1
        /\ \E rel \in DOMAIN hs[h].syncStatus :
             /\ hs[h].syncStatus[rel].inS3
             /\ \A k \in KeysAfter(remote, NoToken) :
                  k = hs[h].syncStatus[rel].s3Key \/ KeyBefore(k, hs[h].syncStatus[rel].s3Key)

\* the destination prefix `${baseFolderName}/` as a plain string
DestinationPrefix == baseFolderName \o <<"/">>

\* C14: the result of a finished reconciliation has exactly one entry per
\* relative path of the local files; the presence flag of a file is true if
\* and only if the bucket holds a key that starts with the destination prefix
\* and is the file's relative path once that prefix is cut off; and its
\* remote key is the prefix followed by the relative path
C14_PresenceMatchesRemote ==
    \A h \in Requests :
        (hs[h].kind \in SyncKinds /\ hs[h].pc = "done")
        => /\ DOMAIN hs[h].syncStatus = {LocalName(f) : f \in Range(hs[h].paths)}
           /\ \A f \in Range(hs[h].paths) :
                LET entry == hs[h].syncStatus[LocalName(f)] IN
                /\ entry.inS3 =
                     (\E k \in remote :
                        /\ StartsWith(k, DestinationPrefix)
                        /\ SubSeq(k, Len(DestinationPrefix) + 1, Len(k)) = LocalName(f))
                /\ entry.s3Key = DestinationPrefix \o LocalName(f)

\* C15: two finished reconciliations of the same endpoint over the same list
\* of local files, against the same bucket, hold identical presence maps and
\* object counts; and no step of a reconciliation changes the local files or
\* the bucket
C15_ReconciliationIdempotent ==
    [][/\ \A h, g \in Requests :
            (/\ hs'[h].kind \in SyncKinds /\ hs'[g].kind = hs'[h].kind
             /\ hs'[h].pc = "done" /\ hs'[g].pc = "done"
             /\ hs'[h].paths = hs'[g].paths)
            => /\ hs'[h].syncStatus = hs'[g].syncStatus
               /\ Cardinality(hs'[h].s3Objects) = Cardinality(hs'[g].s3Objects)
       /\ (\E h \in Requests : hs'[h] # hs[h] /\ hs'[h].kind \in SyncKinds)
            => (localFs' = localFs /\ remote' = remote)]_vars

\* C15 witness: the synchronous endpoint has answered two requests for the
\* same file, one after the other, and both found it in the bucket
C15_Witness ==
    /\ hs[1].kind = "sync_simple" /\ hs[2].kind = "sync_simple"
    /\ hs[1].pc = "done" /\ hs[2].pc = "done"
    /\ hs[1].paths = hs[2].paths /\ Len(hs[1].paths) = 1
    /\ hs[1].body = hs[2].body
    /\ \E rel \in DOMAIN hs[2].body.syncStatus : hs[2].body.syncStatus[rel].inS3

\* the sync_status_result messages among msgs
SyncResults(msgs) == SelectSeq(msgs, LAMBDA m : m.type = "sync_status_result")

\* C16: the step that ends a tracked reconciliation publishes a
\* sync_status_result that carries the presence map and the object count the
\* handler has computed; and for the same list of local files, against the
\* same bucket and prefix, these are the map and the count in the body of the
\* response of the synchronous endpoint
C16_TrackedEqualsSynchronous ==
    [][\A h \in Requests :
         /\ (hs'[h].kind = "sync_check" /\ Finishes(h))
            => \E k \in 1..Len(published') :
                 /\ published'[k].type = "sync_status_result"
                 /\ published'[k].jobId = h
                 /\ published'[k].syncStatus = hs'[h].syncStatus
                 /\ published'[k].s3ObjectCount = Cardinality(hs'[h].s3Objects)
         /\ \A g \in Requests :
              (/\ hs'[h].kind = "sync_check" /\ hs'[h].pc = "done"
               /\ hs'[g].kind = "sync_simple" /\ hs'[g].pc = "done"
               /\ hs'[h].paths = hs'[g].paths)
              => /\ hs'[h].syncStatus = hs'[g].body.syncStatus
                 /\ Cardinality(hs'[h].s3Objects) = hs'[g].body.s3ObjectCount]_vars

\* C16 witness: the synchronous endpoint has answered for a file that is in the
\* bucket, and a tracked reconciliation of the same file has just sent an open
\* client the same map and count
C16_Witness ==
    \E h, g \in Requests, c \in Clients :
        /\ hs[h].kind = "sync_check" /\ hs[h].pc = "done"
        /\ hs[g].kind = "sync_simple" /\ hs[g].pc = "done"
        /\ hs[h].paths = hs[g].paths /\ Len(hs[h].paths) = 1
        /\ cstate[c] = "open" /\ Len(SyncResults(sent[c])) = 1
        /\ SyncResults(sent[c])[1].syncStatus = hs[g].body.syncStatus
        /\ SyncResults(sent[c])[1].s3ObjectCount = hs[g].body.s3ObjectCount
        /\ hs[g].body.s3ObjectCount > 0
        /\ \E rel \in DOMAIN hs[g].body.syncStatus : hs[g].body.syncStatus[rel].inS3

\* C17: a step publishes a sync_status_result exactly when it ends a tracked
\* reconciliation normally, and then exactly one, which names the job and
\* holds an entry for the relative path of every local file, next to (not
\* inside) the job updates of the step; a step of the synchronous endpoint
\* publishes nothing and leaves the jobs and the registry as they were
C17_OneSyncResult ==
    [][/\ Len(SyncResults(published')) =
            Cardinality({h \in Requests : hs'[h].kind = "sync_check" /\ Finishes(h)})
       /\ \A h \in Requests :
            /\ (hs'[h].kind = "sync_check" /\ Finishes(h))
               => /\ SyncResults(published')[1].jobId = h
                  /\ DOMAIN SyncResults(published')[1].syncStatus
                       = {LocalName(f) : f \in Range(hs'[h].paths)}
                  /\ Len(JobUpdates(published')) = Len(published') - 1
                  /\ hs'[h].nResults = 1
            /\ (hs'[h].kind = "sync_simple" /\ hs'[h] # hs[h])
               => /\ published' = <<>>
                  /\ job' = job /\ job[h] = NoJob
                  /\ jobsMap' = jobsMap]_vars

\* C17 witness: a tracked reconciliation of two files has just ended, an open
\* client got its one result, with two entries, after the progress update and
\* before the final job update; and the synchronous endpoint has answered a
\* request without a job
C17_Witness ==
    \E h \in Requests, c \in Clients :
        /\ hs[h].kind = "sync_check" /\ hs[h].pc = "done" /\ hs[h].nResults = 1
        /\ cstate[c] = "open" /\ Len(sent[c]) = 3
        /\ sent[c][2].type = "sync_status_result"
        /\ Cardinality(DOMAIN sent[c][2].syncStatus) = 2
        /\ sent[c][1].type = "job_update" /\ sent[c][3].type = "job_update"
        /\ \E g \in Requests :
             hs[g].kind = "sync_simple" /\ hs[g].pc = "done" /\ job[g] = NoJob

\* C18: a running job with n > 0 items of which k are recorded as completed
\* shows the progress floor(k / n * 100), and a job with no items shows 0 or
\* 100 (no division by zero has left its mark)
C18_ProgressIsFloor ==
    \A j \in Requests :
        (job[j] # NoJob /\ job[j].status = "running")
        => IF job[j].totalItems > 0
           THEN job[j].progress = (100 * job[j].completedItems) \div job[j].totalItems
           ELSE job[j].progress \in {0, 100}

\* the handlers of the three upload endpoints
UploadKinds == {"single", "batch", "upload"}

\* C19: in each of the three upload handlers, a transfer is under way only
\* with a strategy chosen, the strategy chosen for a file is streaming if and
\* only if its size is strictly greater than 100 * 1024 * 1024 bytes, and the
\* file is read into memory (fs.readFile) only under the buffered strategy
C19_StrictThreshold ==
    \A h \in Requests :
        /\ hs[h].pc \in {"read", "put", "single_read", "single_put"}
           => (hs[h].kind \in UploadKinds /\ hs[h].strategy # "none")
        /\ hs[h].strategy # "none"
           => LET size == SizeOf(hs[h].paths[hs[h].i]) IN
              /\ hs[h].strategy \in {"streaming", "buffered"}
              /\ (hs[h].strategy = "streaming") = (size > 100 * 1024 * 1024)
              /\ hs[h].pc \in {"read", "single_read"} => hs[h].strategy = "buffered"
              /\ hs[h].cb > 0 => hs[h].strategy = "streaming"

\* C19 witness: upload-photo transfers a file of exactly 100 * 1024 * 1024
\* bytes buffered while upload-folder streams one that is a byte larger
C19_Witness ==
    \E h, g \in Requests :
        /\ hs[h].kind = "single" /\ hs[h].pc = "single_put"
        /\ SizeOf(hs[h].paths[1]) = 100 * 1024 * 1024 /\ hs[h].strategy = "buffered"
        /\ hs[g].kind = "upload" /\ hs[g].pc = "put"
        /\ SizeOf(hs[g].paths[hs[g].i]) = 100 * 1024 * 1024 + 1
        /\ hs[g].strategy = "streaming"

\* C20: the key an upload-folder handler has computed for a file is the last
\* segment of the configured root folder, "/", and the path of the file
\* relative to that root when the structure is preserved; otherwise it is that
\* segment, "/", a timestamp, "_" and the name of the file
C20_DestinationKeyScheme ==
    \A h \in Requests :
        (hs[h].kind = "upload" /\ hs[h].key # NoKey)
        => LET root == expandTilde(folderPath)
               photoPath == FilePath(hs[h].paths[hs[h].i])
           IN IF hs[h].pres
              THEN hs[h].key = PathBasename(root) \o <<"/">> \o PathRelative(root, photoPath)
              ELSE \E now \in Timestamps :
                     hs[h].key = PathBasename(root) \o <<"/">> \o <<ToString(now), "_">>
                                   \o PathBasename(photoPath)

(* ------------------------------ the scan ------------------------------ *)
RECURSIVE SumOver(_, _)
\* the sum of f[x] over the x of the finite set dom
SumOver(dom, f) ==
    IF dom = {} THEN 0
    ELSE LET x == CHOOSE y \in dom : TRUE IN f[x] + SumOver(dom \ {x}, f)

RECURSIVE IsBelow(_, _)
\* entry k lies in the folder n or in a folder below it
IsBelow(k, n) ==
    k # 0 /\ (dirTree.entries[k].parent = n \/ IsBelow(dirTree.entries[k].parent, n))

\* the name is a stem followed by a media extension in any case
HasMediaExtension(name) ==
    \E ext \in getSupportedExtensions :
        /\ Len(name) > Len(ext)
        /\ ToLowerCase(SubSeq(name, Len(name) - Len(ext) + 1, Len(name))) = ext

\* the regular files with a media extension in the subtree of folder n
EligibleBelow(n) ==
    {k \in 1..Len(dirTree.entries) :
        /\ IsBelow(k, n)
        /\ dirTree.entries[k].kind = "file"
        /\ HasMediaExtension(dirTree.entries[k].name)}

\* the trees the scan has returned
ReturnedTrees ==
    {scan.resp[k].body : k \in {m \in 1..Len(scan.resp) : scan.resp[m].code = 200}}

RECURSIVE NodeSums(_, _)
\* the node fd returned for folder n, and every node below it, carries the
\* sums of its own files and of its children, which are those of its subtree
NodeSums(fd, n) ==
    /\ fd.photoCount = Len(fd.photos)
                       + SumOver(DOMAIN fd.subfolders,
                                 [x \in DOMAIN fd.subfolders |-> fd.subfolders[x].photoCount])
    /\ fd.totalSize = SumOver(1..Len(fd.photos), [k \in 1..Len(fd.photos) |-> fd.photos[k].size])
                      + SumOver(DOMAIN fd.subfolders,
                                [x \in DOMAIN fd.subfolders |-> fd.subfolders[x].totalSize])
    /\ fd.photoCount = Cardinality(EligibleBelow(n))
    /\ fd.totalSize = SumOver(EligibleBelow(n), [k \in EligibleBelow(n) |-> EntrySize(k)])
    /\ \A x \in DOMAIN fd.subfolders :
         \E k \in 1..Len(dirTree.entries) :
            /\ dirTree.entries[k].parent = n
            /\ dirTree.entries[k].name = x
            /\ dirTree.entries[k].kind = "dir"
            /\ NodeSums(fd.subfolders[x], k)

\* C21: in the tree a scan returns, every folder node at every depth carries
\* as photoCount the number of its own files plus the photoCounts of its
\* subfolders, which is the number of media files in its subtree, and as
\* totalSize the like sum of sizes.
C21_AggregatesAtEveryDepth ==
    \A body \in ReturnedTrees : NodeSums(body.folderStructure, 0)

\* a returned tree with a media file two folders below the root
C21_Witness ==
    \E body \in ReturnedTrees :
        \E x \in DOMAIN body.folderStructure.subfolders :
            \E y \in DOMAIN body.folderStructure.subfolders[x].subfolders :
                /\ body.folderStructure.subfolders[x].subfolders[y].photoCount = 1
                /\ body.folderStructure.photoCount = 1

\* C22: a scan that returns answers totalPhotos = N and a root photoCount of
\* N, N being the number of regular files of the tree whose name ends in a
\* media extension in any case, at whatever depth and in whatever listing
\* order; for an empty root folder totalPhotos, photoCount and totalSize are 0.
C22_TotalIsEligibleCount ==
    \A body \in ReturnedTrees :
        /\ body.totalPhotos = Cardinality(EligibleBelow(0))
        /\ body.folderStructure.photoCount = Cardinality(EligibleBelow(0))
        /\ dirTree.entries = <<>>
           => /\ body.totalPhotos = 0
              /\ body.folderStructure.photoCount = 0
              /\ body.folderStructure.totalSize = 0

\* a returned scan of a tree that holds a media file named in capitals inside
\* a folder, and a file that is no media file
C22_Witness ==
    \E body \in ReturnedTrees :
        /\ body.totalPhotos = 1
        /\ \E k, m \in 1..Len(dirTree.entries) :
             /\ dirTree.entries[k].kind = "file"
             /\ dirTree.entries[k].name = <<"b", ".", "T", "S">>
             /\ dirTree.entries[k].parent # 0
             /\ dirTree.entries[m].kind = "file"
             /\ dirTree.entries[m].name = <<"c", ".", "j", "s">>

\* C23: a scan request that names a root folder which does not exist is
\* answered 400 "Folder path does not exist" and nothing else: no readdir or
\* stat is issued and no tree is returned.
C23_MissingRootIsRejected ==
    (scan.hasPath /\ ~dirTree.exists /\ scan.pc # "idle")
    => /\ scan.resp = <<[code |-> 400, body |-> ErrorBody("Folder path does not exist")]>>
       /\ scan.pc = "done"
       /\ scan.stack = <<>>
       /\ ReturnedTrees = {}

\* the request for a missing root has been answered
C23_Witness ==
    /\ scan.hasPath
    /\ ~dirTree.exists
    /\ Len(scan.resp) = 1
    /\ scan.resp[1].code = 400

\* C24: once the stat of an entry has failed, at any depth, the scan is over:
\* the request is answered 500 and nothing else, no tree is returned, whole or
\* partial, and the walk does not go on past the entry.
C24_StatFailureAbortsScan ==
    scan.statFailed # <<>>
    => /\ scan.pc = "aborted"
       /\ scan.stack = <<>>
       /\ Len(scan.statFailed) = 1
       /\ scan.resp = <<[code |-> 500, body |-> ErrorBody("Failed to scan media files")]>>
       /\ ReturnedTrees = {}

\* the stat of an entry inside a subfolder failed after a media file of the
\* root had been listed
C24_Witness ==
    /\ Len(scan.statFailed) = 1
    /\ dirTree.entries[scan.statFailed[1]].parent # 0
    /\ scan.totalPhotos = 1
    /\ Len(scan.resp) = 1

(* --------------------------- jobs side by side ------------------------ *)
\* C25: an upload-folder handler works on one file at a time, in the order of
\* photoPaths: its position moves by one file at a time, it moves on only
\* when the file it leaves has its outcome (success or failure) in results,
\* and while an s3.upload is awaited every earlier file, and no other, has
\* its outcome, listed in input order.
C25_SequentialInOrder ==
    [][\A h \in Requests :
          hs'[h].kind = "upload"
          => /\ hs'[h].i \in {hs[h].i, hs[h].i + 1}
             /\ hs'[h].i = hs[h].i + 1 => Len(hs'[h].results) = hs[h].i
             /\ hs'[h].pc = "put"
                => /\ Len(hs'[h].results) = hs'[h].i - 1
                   /\ \A k \in 1..Len(hs'[h].results) :
                         hs'[h].results[k].path = hs'[h].paths[k]]_vars

\* the transfer of the second file is awaited after the first file has failed
C25_Witness ==
    \E h \in Requests :
        /\ hs[h].kind = "upload"
        /\ hs[h].pc = "put"
        /\ hs[h].i = 2
        /\ Len(hs[h].results) = 1
        /\ ~hs[h].results[1].success

\* C26: jobs in flight side by side are independent: a step of the handler
\* of one request changes no field of the Job another request created.
C26_JobsAreIndependent ==
    [][\A h, g \in Requests :
          (h # g /\ hs'[h] # hs[h] /\ job[g] # NoJob) => job'[g] = job[g]]_vars

(* ---------------------------- the Job methods ------------------------- *)
\* C27: no method call shortens or rewrites the errors of a job: a call
\* leaves the list as it was or appends one message at its end.
C27_ErrorsOnlyGrow ==
    [][\A j \in Requests :
          job[j] # NoJob
          => \/ job'[j].errors = job[j].errors
             \/ /\ Len(job'[j].errors) = Len(job[j].errors) + 1
                /\ SubSeq(job'[j].errors, 1, Len(job[j].errors)) = job[j].errors]_vars

\* a job that failed after an item of it had failed: two messages
C27_Witness ==
    \E j \in Requests :
        /\ job[j] # NoJob
        /\ job[j].status = "failed"
        /\ Len(job[j].errors) = 2
        /\ job[j].failedItems = 1

\* C28: the job a tracked handler (upload-folder, check-sync-status) creates
\* is in the jobs Map when its id is returned to the caller, and it is then
\* running, with completedItems 0, failedItems 0, no errors and no current
\* item, for the type and the number of items of the request.
C28_CreatedJobIsFresh ==
    \A h \in Requests :
        Created(h)
        => /\ resp[h] # <<>> /\ resp[h][1] = 200
           /\ hs[h].atReply # NoJob
           /\ hs[h].atReply.id = h
           /\ hs[h].atReply.type = hs[h].kind
           /\ hs[h].atReply.totalItems = Len(hs[h].paths)
           /\ hs[h].atReply.status = "running"
           /\ hs[h].atReply.completedItems = 0
           /\ hs[h].atReply.failedItems = 0
           /\ hs[h].atReply.errors = <<>>
           /\ hs[h].atReply.currentItem = <<>>

\* an upload whose job has moved on to its first file since its creation
C28_Witness ==
    \E h \in Requests :
        /\ Created(h)
        /\ hs[h].kind = "upload"
        /\ hs[h].pc = "stat"
        /\ job[h].currentItem # <<>>
        /\ hs[h].atReply.currentItem = <<>>

\* C29: a call updateProgress(completedItems, currentItem, error) leaves the
\* job with completedItems and currentItem equal to its arguments; with an
\* error it adds exactly one to failedItems and appends the error to errors,
\* without one it leaves failedItems and errors as they were; status and
\* totalItems are as before the call.
C29_UpdateProgressFrame ==
    [][\A j \in Requests, completedItems \in 0..MaxTotalItems, f \in Files,
          error \in {NULL, TransferError} :
          (j \in Range(jobsMap)
           /\ Commit(updateProgress(Cur, j, completedItems, <<LocalName(f)>>, error)))
          => /\ job'[j].completedItems = completedItems
             /\ job'[j].currentItem = <<LocalName(f)>>
             /\ error # NULL
                => /\ job'[j].failedItems = job[j].failedItems + 1
                   /\ job'[j].errors = Append(job[j].errors, error)
             /\ error = NULL
                => /\ job'[j].failedItems = job[j].failedItems
                   /\ job'[j].errors = job[j].errors
             /\ job'[j].status = job[j].status
             /\ job'[j].totalItems = job[j].totalItems
             /\ job'[j].id = job[j].id /\ job'[j].type = job[j].type]_vars

\* a running job after updateProgress calls of which one carried an error
C29_Witness ==
    \E j \in Requests :
        /\ job[j] # NoJob
        /\ job[j].status = "running"
        /\ job[j].failedItems = 1
        /\ job[j].errors = <<TransferError>>
        /\ job[j].completedItems = 2
        /\ mutLog # <<>>
        /\ mutLog[1].failedItems = 1

\* C30: a call complete() leaves the job completed, with progress 100 and no
\* current item, whatever its completedItems and totalItems were (0 items
\* included), and with completedItems, failedItems, errors and totalItems as
\* before the call.
C30_CompleteFrame ==
    [][\A j \in Requests :
          (j \in Range(jobsMap) /\ Commit(complete(Cur, j)))
          => /\ job'[j].status = "completed"
             /\ job'[j].progress = 100
             /\ job'[j].currentItem = <<>>
             /\ job'[j].completedItems = job[j].completedItems
             /\ job'[j].failedItems = job[j].failedItems
             /\ job'[j].errors = job[j].errors
             /\ job'[j].totalItems = job[j].totalItems
             /\ job'[j].id = job[j].id /\ job'[j].type = job[j].type]_vars

\* a job completed with one of its three items recorded, and that one failed
C30_Witness ==
    \E j \in Requests :
        /\ job[j] # NoJob
        /\ job[j].status = "completed"
        /\ job[j].progress = 100
        /\ job[j].totalItems = 3
        /\ job[j].completedItems = 1
        /\ job[j].failedItems = 1
        /\ job[j].currentItem = <<>>

(* ----------------------- counters of a running upload ----------------- *)
\* C31: in an upload job the completed-item counter starts at 0, never goes
\* down, and goes up by exactly one in the step in which a file gets its
\* outcome (success or failure) and in no other step; no job update of the
\* step shows another value.
C31_CounterAdvancesPerFile ==
    [][\A h \in Requests :
          hs'[h].kind = "upload" /\ job'[h] # NoJob
          => LET c == IF job[h] = NoJob THEN 0 ELSE job[h].completedItems
             IN /\ job'[h].completedItems \in {c, c + 1}
                /\ job'[h].completedItems = c + 1
                   <=> Len(hs'[h].results) = Len(hs[h].results) + 1
                /\ \A k \in 1..Len(mutLog') :
                      mutLog'[k].id = h => mutLog'[k].completedItems \in {c, c + 1}]_vars

\* C32: a run of the httpUploadProgress listener of an upload, during its
\* transfer or after it, leaves completedItems, failedItems, errors and status
\* of the job as they were.
C32_ProgressCallbackOnlyLabels ==
    [][\A h \in Requests :
          (hs'[h].cb = hs[h].cb + 1 \/ hs'[h].late = hs[h].late + 1)
          => /\ job'[h].completedItems = job[h].completedItems
             /\ job'[h].failedItems = job[h].failedItems
             /\ job'[h].errors = job[h].errors
             /\ job'[h].status = job[h].status]_vars

(* --------------------------- the listing loop ------------------------- *)
\* the pages the bucket holds for the prefix: one at least, the empty one
PagesOfListing ==
    LET n == Cardinality(KeysAfter(remote, NoToken))
    IN IF n = 0 THEN 1 ELSE (n + PageSize - 1) \div PageSize

\* C33: the listing loop of both reconciliation handlers sends its first
\* request without a token and every later one with the token of the response
\* before it, goes on exactly as long as a response carries a token, has then
\* sent one request per page, and leaves the loop in the end.
C33_ListingFollowsTokens ==
    /\ [][\A h \in Requests :
             hs'[h].kind \in SyncKinds
             => /\ (hs[h].pc # "list" /\ hs'[h].pc = "list")
                   => (hs'[h].token = NoToken /\ hs'[h].pages = 0)
                /\ (hs[h].pc = "list" /\ hs'[h] # hs[h] /\ hs'[h].pc # "aborted")
                   => LET next == NextContinuationToken(remote, hs[h].token)
                      IN /\ hs'[h].pages = hs[h].pages + 1
                         /\ hs'[h].token = next
                         /\ hs'[h].pc = "list" <=> next # NoToken
                         /\ hs'[h].pc # "list" => hs'[h].pages = PagesOfListing]_vars
    /\ \A h \in Requests : (hs[h].pc = "list") ~> (hs[h].pc # "list")

\* a listing of two pages that has run to its end
C33_Witness ==
    \E h \in Requests :
        /\ hs[h].kind \in SyncKinds
        /\ hs[h].pc = "done"
        /\ hs[h].pages = 2
        /\ hs[h].token = NoToken
        /\ Cardinality(hs[h].s3Objects) = 2

\* C34: every job has 0 <= failedItems <= completedItems <= totalItems, and a
\* running job has as many errors as failed items.
C34_CounterBounds ==
    \A j \in Requests :
        job[j] # NoJob
        => /\ 0 <= job[j].failedItems
           /\ job[j].failedItems <= job[j].completedItems
           /\ job[j].completedItems <= job[j].totalItems
           /\ job[j].status = "running" => job[j].failedItems = Len(job[j].errors)

\* C35: a job whose status is completed has progress 100 and no current item,
\* whatever arrives after complete().
C35_CompletedStaysFinal ==
    \A j \in Requests :
        (job[j] # NoJob /\ job[j].status = "completed")
        => (job[j].progress = 100 /\ job[j].currentItem = <<>>)

(* ------------------------ the one-shot result event ------------------- *)
\* the message is the upload_result or sync_status_result of job h
IsResultOf(m, h) == m.type \in {"upload_result", "sync_status_result"} /\ m.jobId = h
\* the message is a job_update of job h
IsUpdateOf(m, h) == m.type = "job_update" /\ m.job.id = h

\* C36: in what an open socket is sent, a job update of a job that carries
\* status completed comes after the result event of that job, and a job
\* update that carries a current item (a per-item progress update) comes
\* before it.
C36_ResultBetweenProgressAndCompleted ==
    [][\A c \in Clients, h \in Requests :
          cstate[c] = "open"
          => \A p \in 1..Len(sent'[c]) :
                IsUpdateOf(sent'[c][p], h)
                => /\ sent'[c][p].job.status = "completed"
                      => \/ hs[h].nResults > 0
                         \/ \E q \in 1..(p - 1) : IsResultOf(sent'[c][q], h)
                   /\ sent'[c][p].job.currentItem # <<>>
                      => /\ hs[h].nResults = 0
                         /\ \A q \in 1..(p - 1) : ~IsResultOf(sent'[c][q], h)]_vars

(* ------------------- upload and reconciliation together --------------- *)
\* C37: a reconciliation that has run to its end against a bucket which holds
\* the key under which an upload with the structure preserved stored a local
\* file reports that file as present, with that key as its remote key.
C37_UploadThenReconcileAgree ==
    \A h \in Requests :
        (hs[h].kind \in SyncKinds /\ hs[h].pc = "done")
        => \A f \in Range(hs[h].paths) :
              UploadedKey(folderPath, f) \in remote
              => /\ hs[h].syncStatus[LocalName(f)].inS3
                 /\ hs[h].syncStatus[LocalName(f)].s3Key = UploadedKey(folderPath, f)


(* ============================ the browser client ====================== *)
\* everything but the client: the server is left alone by the client's steps
serverVars == <<hs, job, jobsMap, timers, cstate, sent, resp, localFs, remote, mutLog,
                deletedBy, published, folderPath, dirTree, scan>>

Sockets == 1..Len(client.sockets)
\* the sockets whose onmessage can still run: those that are OPEN or will be;
\* after close() a WebSocket delivers no message event
LiveSockets == {s \in Sockets : client.sockets[s].readyState \in {"connecting", "open"}}
\* const hasActiveJobs = activeJobIds.size > 0
hasActiveJobs == client.activeJobIds # {}

\* connectWebSocket: wsRef.current = new WebSocket(wsUrl), handlers attached
connectWebSocket(C) ==
    [C EXCEPT !.sockets = Append(@, [readyState |-> "connecting", inbox |-> {}]),
              !.wsRef = Len(C.sockets) + 1]

\* the effect's cleanup: if (wsRef.current) wsRef.current.close(); close()
\* of a socket that is closing or closed does nothing, and a socket that is
\* no longer OPEN drops the events queued for it
effectCleanup(C) ==
    IF C.wsRef # NoSocket /\ C.sockets[C.wsRef].readyState \in {"connecting", "open"}
    THEN [C EXCEPT !.sockets[C.wsRef] = [readyState |-> "closing", inbox |-> {}]]
    ELSE C

\* setActiveJobIds(prev => new Set(...)): a new Set object on every call, so
\* the dependency list of the socket effect has changed and the effect re-runs
setActiveJobIds(C, ids) == [C EXCEPT !.activeJobIds = ids, !.effectPending = TRUE]

\* React re-runs the socket effect: the cleanup of the previous run, then
\* if (isConfigured) connectWebSocket()
RunEffect ==
    /\ client.effectPending
    /\ Len(client.sockets) < MaxSockets
    /\ client' = [connectWebSocket(effectCleanup(client)) EXCEPT !.effectPending = FALSE]
    /\ UNCHANGED serverVars

\* the handshake of socket s ends: onopen logs, and the server's connection
\* handler sends jobs_list, which sets the jobs list only
SocketOpens(s) ==
    /\ client.sockets[s].readyState = "connecting"
    /\ client' = [client EXCEPT !.sockets[s].readyState = "open"]
    /\ UNCHANGED serverVars

\* the close event of a socket that close() was called on:
\* onclose = () => { setTimeout(connectWebSocket, 3000) }
CloseEvent(s) ==
    /\ client.sockets[s].readyState = "closing"
    /\ client' = [client EXCEPT !.sockets[s].readyState = "closed", !.timeouts = @ + 1]
    /\ UNCHANGED serverVars

\* the connection of an open socket is lost: the same onclose runs
ConnectionLost(s) ==
    /\ client.sockets[s].readyState = "open"
    /\ client' = [client EXCEPT !.sockets[s] = [readyState |-> "closed", inbox |-> {}],
                                !.timeouts = @ + 1]
    /\ UNCHANGED serverVars

\* a 3-second timer set by onclose fires: connectWebSocket of the effect run
\* that made the closed socket; nothing clears the timer
ReconnectTimer ==
    /\ client.timeouts > 0
    /\ Len(client.sockets) < MaxSockets
    /\ client' = [connectWebSocket(client) EXCEPT !.timeouts = @ - 1]
    /\ UNCHANGED serverVars

\* a scan has answered: setFolderStructure(data.folderStructure)
ScanDone ==
    /\ ~client.effectPending
    /\ client' = [client EXCEPT !.effectPending = TRUE]
    /\ UNCHANGED serverVars

\* the server has created job j and answered 200; the continuation of the
\* fetch adds data.jobId to the set
jobStarted(C, j, type) ==
    setActiveJobIds([C EXCEPT !.startedJobs[j] = "running", !.jobType[j] = type],
                    C.activeJobIds \cup {j})

\* uploadFolder / uploadFile with response.ok, on a button of the mounted
\* component (the socket effect has run at least once)
uploadFolder(j) ==
    /\ client.wsRef # NoSocket
    /\ client.startedJobs[j] = "none"
    /\ \A i \in 1..(j - 1) : client.startedJobs[i] # "none"
    /\ client' = jobStarted(client, j, "upload")
    /\ UNCHANGED serverVars

\* checkSyncStatus with response.ok
checkSyncStatus(j) ==
    /\ client.wsRef # NoSocket
    /\ client.startedJobs[j] = "none"
    /\ \A i \in 1..(j - 1) : client.startedJobs[i] # "none"
    /\ client' = jobStarted(client, j, "sync_check")
    /\ UNCHANGED serverVars

\* the server's handler of job j reaches its end: the result event of the
\* job (upload_result or sync_status_result) goes to every socket that is OPEN
ServerBroadcastResult(j) ==
    /\ client.startedJobs[j] = "running"
    /\ client' = [client EXCEPT
          !.startedJobs[j] = "done",
          !.sockets = [s \in DOMAIN @ |->
               IF @[s].readyState = "open" THEN [@[s] EXCEPT !.inbox = @ \cup {j}] ELSE @[s]]]
    /\ UNCHANGED serverVars

\* the server's handler of job j ends in its outer catch: no result event
ServerJobFails(j) ==
    /\ client.startedJobs[j] = "running"
    /\ client' = [client EXCEPT !.startedJobs[j] = "failed"]
    /\ UNCHANGED serverVars

\* onmessage of socket s with the upload_result or sync_status_result of
\* job j: newSet.delete(data.jobId)
onmessage(s, j) ==
    /\ client.sockets[s].readyState = "open"
    /\ j \in client.sockets[s].inbox
    /\ client' = setActiveJobIds([client EXCEPT !.sockets[s].inbox = @ \ {j},
                                               !.processed[j] = @ + 1],
                                 client.activeJobIds \ {j})
    /\ UNCHANGED serverVars

NextClient ==
    \/ RunEffect
    \/ ReconnectTimer
    \/ ScanDone
    \/ \E s \in Sockets : SocketOpens(s)
    \/ \E s \in Sockets : CloseEvent(s)
    \/ \E s \in Sockets : ConnectionLost(s)
    \/ \E j \in ClientJobs : uploadFolder(j)
    \/ \E j \in ClientJobs : checkSyncStatus(j)
    \/ \E j \in ClientJobs : ServerBroadcastResult(j)
    \/ \E j \in ClientJobs : ServerJobFails(j)
    \/ \E s \in Sockets, j \in ClientJobs : onmessage(s, j)

\* every scheduled step of the browser and of the server is taken in the
\* end; the user's steps and the loss of a connection need not happen
SpecClient ==
    /\ Init
    /\ [][NextClient]_vars
    /\ WF_vars(RunEffect)
    /\ WF_vars(ReconnectTimer)
    /\ \A s \in 1..MaxSockets :
          /\ WF_vars(s \in Sockets /\ SocketOpens(s))
          /\ WF_vars(s \in Sockets /\ CloseEvent(s))
          /\ \A j \in ClientJobs : WF_vars(s \in Sockets /\ onmessage(s, j))
    /\ \A j \in ClientJobs : WF_vars(ServerBroadcastResult(j) \/ ServerJobFails(j))

\* C38: every job id in the set of active jobs is removed from it in the end,
\* so the controls disabled while the set is not empty are enabled again.
C38_ActiveJobEventuallyRemoved ==
    \A j \in ClientJobs : (j \in client.activeJobIds) ~> (j \notin client.activeJobIds)

\* C39: at most one socket of the client has a live message handler, and no
\* result event is processed more than once.
C39_OneLiveSocket ==
    /\ Cardinality(LiveSockets) <= 1
    /\ \A j \in ClientJobs : client.processed[j] <= 1
====
